---- MODULE Spec2Model ----
(***************************************************************************)
(* A model of iprecommit's check-execution engine and of its entry point:  *)
(*   src/iprecommit/main.py     main, _main, find_git_root,                *)
(*                              print_debugging_info, main_pre_commit,     *)
(*                              main_fix                                   *)
(*   src/iprecommit/checks.py   Checks.run_pre_commit, _run_pre_commit_    *)
(*                              check, _run_pre_commit_fix, _summary,      *)
(*                              run_commit_msg, run_pre_push, _run_one,    *)
(*                              filter_paths, compile_filter               *)
(*   src/iprecommit/githelper.py  the version-control queries              *)
(*   src/iprecommit/tomlconfig.py the PreCommitCheck / Config records      *)
(*                                                                         *)
(* A string (a path, a glob pattern, a command word) is a sequence of      *)
(* one-character strings, so that glob matching is computed character by   *)
(* character as fnmatch does.                                              *)
(***************************************************************************)
EXTENDS Integers, Sequences, FiniteSets, TLC

VARIABLES
    config,                 \* tomlconfig.Config: autofix, fail_fast, pre_commit_checks
                            \* (in main(), before tomlconfig.parse: the file)
    args,                   \* keyword arguments of Checks.run_pre_commit (in main(),
                            \* before the dispatch: the command line and environment)
    git,                    \* the repository: path -> status letter
    pc,                     \* position inside run_pre_commit
    pass,                   \* 0 before any check pass, 1 first pass, 2 retry pass
    i,                      \* loop index of the running check / fix loop (1-based)
    checks,                 \* local `checks`: references (indices) into config.pre_commit_checks
    all_changed_paths,      \* local `all_changed_paths` (in run_pre_push: local `commits`)
    num_failed_checks,      \* Checks.num_failed_checks
    failed_fixable_checks,  \* Checks.failed_fixable_checks (references)
    fixable_checks,         \* local `fixable_checks` of _run_pre_commit_fix (references)
    runs,                   \* history: every subprocess started by the engine
    out,                    \* history: every status line / banner printed
    vcs_queries,            \* history: every change-set resolution performed
    exit_code,              \* process exit status, -1 while running
    fp_pc, fp_paths, fp_filters, fp_result  \* a direct call of filter_paths

vars == <<config, args, git, pc, pass, i, checks, all_changed_paths,
          num_failed_checks, failed_fixable_checks, fixable_checks,
          runs, out, vcs_queries, exit_code,
          fp_pc, fp_paths, fp_filters, fp_result>>

engine_vars == <<config, args, git, pc, pass, i, checks, all_changed_paths,
                 num_failed_checks, failed_fixable_checks, fixable_checks,
                 runs, out, vcs_queries, exit_code>>

fp_vars == <<fp_pc, fp_paths, fp_filters, fp_result>>

(***************************************************************************)
(* Bounds                                                                  *)
(***************************************************************************)
MaxChecks == 2      \* at most this many [[pre_commit]] tables in the config
MaxFilters == 3     \* at most this many patterns in a directly filtered chain
MaxCandidates == 3  \* at most this many candidate paths in a direct call

(***************************************************************************)
(* Strings                                                                 *)
(***************************************************************************)
a_py == <<"a", ".", "p", "y">>
b_txt == <<"b", ".", "t", "x", "t">>
c_py == <<"c", ".", "p", "y">>
a_txt == <<"a", ".", "t", "x", "t">>

star == <<"*">>
star_py == <<"*", ".", "p", "y">>
q_txt == <<"?", ".", "t", "x", "t">>

Bang(pat) == <<"!">> \o pat

startswith(s, ch) == Len(s) > 0 /\ s[1] = ch

\* fnmatch.fnmatch(name, pat) on POSIX (normcase is the identity): the whole
\* name must match; "*" matches any run of characters ("/" included), "?" any
\* single character, every other character itself.
RECURSIVE fnmatch(_, _)
fnmatch(name, pat) ==
    IF pat = <<>> THEN name = <<>>
    ELSE IF Head(pat) = "*"
         THEN fnmatch(name, Tail(pat))
              \/ (name # <<>> /\ fnmatch(Tail(name), pat))
         ELSE /\ name # <<>>
              /\ (Head(pat) = "?" \/ Head(pat) = Head(name))
              /\ fnmatch(Tail(name), Tail(pat))

(***************************************************************************)
(* filter_paths / compile_filter                                           *)
(***************************************************************************)
\* compile_filter(pat)(pair): pair is <<path, include_me>>
compile_filter(pat, pair) ==
    IF startswith(pat, "!")
    THEN IF fnmatch(pair[1], Tail(pat)) THEN <<pair[1], FALSE>> ELSE pair
    ELSE IF fnmatch(pair[1], pat) THEN <<pair[1], TRUE>> ELSE pair

\* mutant: the filters are applied last to first, so an earlier pattern wins
RECURSIVE apply_filters_reversed(_, _)
apply_filters_reversed(fs, pair) ==
    IF fs = <<>> THEN pair
    ELSE compile_filter(Head(fs), apply_filters_reversed(Tail(fs), pair))

\* lines 300-302: the base filter, then every other filter in declaration order
RECURSIVE apply_filters(_, _)
apply_filters(fs, pair) ==
    IF fs = <<>> THEN pair
    ELSE apply_filters(Tail(fs), compile_filter(Head(fs), pair))

\* mutant: no implicit "*" before a leading exclude
effective_filters_no_star(filters) == filters

\* filters after the implicit "*" has been prepended (lines 292-293)
effective_filters(filters) ==
    IF startswith(filters[1], "!") THEN <<star>> \o filters ELSE filters

\* mutant: every candidate starts included
initial_tag_included == TRUE

\* the tag of the pair before the base filter is applied (line 300)
initial_tag == FALSE

\* mutant: no early return; an empty chain leaves every candidate at its
\* initial tag
filter_paths_no_early_return(paths, filters) ==
    LET include_me(path) == apply_filters(filters, <<path, initial_tag>>)[2]
    IN SelectSeq(paths, include_me)

\* mutant: the included candidates are returned last to first
filter_paths_reversed(paths, filters) ==
    LET fs == IF filters = <<>> THEN <<star>> ELSE effective_filters(filters)
        include_me(path) == apply_filters(fs, <<path, initial_tag>>)[2]
        included == SelectSeq(paths, include_me)
    IN [k \in 1..Len(included) |-> included[Len(included) + 1 - k]]

\* lines 288-304
filter_paths(paths, filters) ==
    IF filters = <<>> THEN paths
    ELSE LET fs == effective_filters(filters)
             include_me(path) == apply_filters(fs, <<path, initial_tag>>)[2]
         IN SelectSeq(paths, include_me)

(***************************************************************************)
(* The repository (githelper.py).  Status letters of a path:               *)
(*   "A" staged new file        "M" staged modification                    *)
(*   "m" unstaged modification  "D" staged deletion                        *)
(*   "d" unstaged deletion      "U" untracked                              *)
(*   "T" tracked and clean      "-" not present                            *)
(***************************************************************************)
Paths == {a_py, b_txt}

\* the order in which git lists paths
PathOrder == <<a_py, b_txt>>

Status == {"A", "M", "m", "D", "d", "U", "T", "-"}

paths_with(g, letters) == SelectSeq(PathOrder, LAMBDA p : g[p] \in letters)

\* git diff <ref> --name-only --diff-filter=<filter_string>, ref being
\* --cached (staged only) or HEAD (staged and unstaged)
git_filter_paths(g, filter_string, include_unstaged) ==
    IF filter_string = "A" THEN paths_with(g, {"A"})
    ELSE IF filter_string = "M"
         THEN paths_with(g, IF include_unstaged THEN {"M", "m"} ELSE {"M"})
         ELSE paths_with(g, IF include_unstaged THEN {"D", "d"} ELSE {"D"})

get_changed_paths(g, include_unstaged) ==
    git_filter_paths(g, "A", include_unstaged) \o git_filter_paths(g, "M", include_unstaged)

get_deleted_paths(g, include_unstaged) == git_filter_paths(g, "D", include_unstaged)

\* git ls-tree -r HEAD
get_tracked_files(g) == paths_with(g, {"M", "m", "D", "d", "T"})

\* git ls-files --others --exclude-standard
get_untracked_files(g) == paths_with(g, {"U"})

Range(s) == {s[k] : k \in 1..Len(s)}

\* mutant: the deleted paths are not taken out of the set
sorted_difference_keep_deleted(xs, ys) ==
    SelectSeq(PathOrder, LAMBDA p : p \in Range(xs))

\* list(sorted(set(xs) - set(ys)))
sorted_difference(xs, ys) ==
    SelectSeq(PathOrder, LAMBDA p : p \in Range(xs) /\ p \notin Range(ys))

\* run_pre_commit, lines 37-52
resolve_changed_paths(g, a) ==
    IF a.all_files
    THEN sorted_difference(
             get_tracked_files(g) \o get_changed_paths(g, TRUE) \o get_untracked_files(g),
             get_deleted_paths(g, TRUE))
    ELSE get_changed_paths(g, a.unstaged) \o get_untracked_files(g)

\* What an external fix command, given `files`, may do to the repository:
\* nothing the queries can see (it rewrote file contents or did nothing), or
\* remove one of its files from index and work tree.
fix_effects(g, files) ==
    {g} \cup {[g EXCEPT ![p] = "-"] : p \in Range(files)}

\* git add <files>: fails as a whole when a pathspec matches nothing
git_add_ok(g, files) == \A p \in Range(files) : g[p] # "-"

\* mutant: `git add -u`, which leaves untracked files untracked
git_add_update_only(g, files) ==
    IF ~git_add_ok(g, files) THEN g
    ELSE [p \in DOMAIN g |->
            IF p \notin Range(files) THEN g[p]
            ELSE IF g[p] = "m" THEN "M"
            ELSE IF g[p] = "d" THEN "D"
            ELSE g[p]]

\* checks.py, line 151: git add <files>
git_add(g, files) ==
    IF ~git_add_ok(g, files) THEN g
    ELSE [p \in DOMAIN g |->
            IF p \notin Range(files) THEN g[p]
            ELSE IF g[p] = "U" THEN "A"
            ELSE IF g[p] = "m" THEN "M"
            ELSE IF g[p] = "d" THEN "D"
            ELSE g[p]]

(***************************************************************************)
(* The configuration (tomlconfig.py)                                       *)
(***************************************************************************)
digits == <<"1", "2", "3", "4", "5", "6", "7", "8", "9">>

None == <<"<None>">>

check_name(k) == <<"N", digits[k]>>
check_cmd(k) == << <<"c", digits[k]>> >>
check_fix_cmd(k) == << <<"f", digits[k]>> >>

\* the filter chains a check of the engine runs may declare
FilterChoices == {<<>>, <<star_py>>}

\* tomlconfig.PreCommitCheck, for the k-th [[pre_commit]] table.  A check is
\* deselected by its skip flag or by its filters, not by both at once.
PreCommitCheck(k) ==
    {c \in [name : {check_name(k)},
            cmd : {check_cmd(k)},
            fix_cmd : {<<>>, check_fix_cmd(k)},
            pass_files : {TRUE},
            filters : FilterChoices,
            working_dir : {None},
            fail_fast : BOOLEAN,
            autofix : BOOLEAN,
            skip : BOOLEAN] : ~(c.skip /\ c.filters # <<>>)}

(***************************************************************************)
(* History records                                                         *)
(***************************************************************************)
\* _print_status(name, status)
status_line(name, status) == [kind |-> "status", name |-> name, text |-> status, n |-> 0]

\* _print_msg / _print_block_status / _summary
msg_line(text, n) == [kind |-> "msg", name |-> None, text |-> text, n |-> n]

\* one subprocess.run: `what` is "cmd", "fix_cmd" or "git_add"; `check` is the
\* position of the check in config.pre_commit_checks
run_record(what, check, argv, files, ok) ==
    [what |-> what, pass |-> pass, check |-> check, argv |-> argv, files |-> files, ok |-> ok]

(***************************************************************************)
(* Checks (checks.py)                                                      *)
(***************************************************************************)
lower_char(ch) == IF ch = "N" THEN "n" ELSE ch

\* str.lower()
lower(s) == [k \in 1..Len(s) |-> lower_char(s[k])]

the_check(ref) == config.pre_commit_checks[ref]

\* mutant: only the skip flag is looked at
is_skipped_flag_only(check, filtered_changed_paths) == check.skip

\* mutant: only the filtered file list is looked at
is_skipped_filter_only(check, filtered_changed_paths) == filtered_changed_paths = <<>>

\* line 93 and line 135: `check.skip or not filtered_changed_paths`
is_skipped(check, filtered_changed_paths) ==
    check.skip \/ filtered_changed_paths = <<>>

\* mutant: the files are appended whatever pass_files says
build_cmd_always_files(check, cmd, filtered_changed_paths) == cmd \o filtered_changed_paths

\* lines 99-102 and 141-143: the argument list of the spawned command
build_cmd(check, cmd, filtered_changed_paths) ==
    IF check.pass_files THEN cmd \o filtered_changed_paths ELSE cmd

\* mutant: the check's own autofix key is ignored
is_failed_fixable_config_only(check) == check.fix_cmd # <<>> /\ config.autofix

\* line 107: `check.fix_cmd and self.config.autofix or check.autofix`
is_failed_fixable(check) ==
    (check.fix_cmd # <<>> /\ config.autofix) \/ check.autofix

\* mutant: the --fail-fast flag is ignored
should_fail_fast_no_cli(check) == config.fail_fast \/ check.fail_fast

\* line 110: `self.config.fail_fast or check.fail_fast or fail_fast`
should_fail_fast(check) ==
    config.fail_fast \/ check.fail_fast \/ args.fail_fast

\* mutant: the failing check is counted among the checks that follow it
subsequent_checks_from_failing(idx) == Len(config.pre_commit_checks) - (idx - 1)

\* line 111: n = len(self.config.pre_commit_checks) - (i + 1), i being 0-based
subsequent_checks(idx) == Len(config.pre_commit_checks) - idx

\* mutant: the autofix cycle is entered after every first pass
autofix_entered_always == TRUE

\* line 63: `self.num_failed_checks > 0 and len(self.failed_fixable_checks) > 0`
autofix_entered == num_failed_checks > 0 /\ Len(failed_fixable_checks) > 0

\* mutant: the autofix pass is handed every check
autofix_checks_all == checks

\* line 69: the checks handed to the autofix pass
autofix_checks == failed_fixable_checks

\* mutant: every check handed to the fix pass counts as fixable
select_fixable_all(refs) == refs

\* mutant: the fixable checks are taken in reverse order
select_fixable_reversed(refs) ==
    LET s == SelectSeq(refs, LAMBDA r : the_check(r).fix_cmd # <<>>)
    IN [k \in 1..Len(s) |-> s[Len(s) + 1 - k]]

\* line 132: `[check for check in checks if check.fix_cmd]`
select_fixable(refs) == SelectSeq(refs, LAMBDA r : the_check(r).fix_cmd # <<>>)

\* mutant: the change set is resolved again for the retry pass
retry_changed_paths_fresh == resolve_changed_paths(git, args)

\* line 79: the first argument of the retry pass's _run_pre_commit_check
retry_changed_paths == all_changed_paths

\* mutant: the counter is not reset before the retry pass
retry_num_failed_checks_kept == num_failed_checks

\* line 73: `self.num_failed_checks = 0`
retry_num_failed_checks == 0

\* the change set the running check pass was called with
pass_changed_paths == IF pass = 2 THEN retry_changed_paths ELSE all_changed_paths

\* lines 251-252
failed == num_failed_checks > 0

\* tomlconfig.parse, lines 91-133: one iteration of the loop over the
\* [[pre_commit]] tables of the file
parse_pre_commit_table ==
    /\ pc = "parse"
    /\ Len(config.pre_commit_checks) < MaxChecks
    /\ \E check \in PreCommitCheck(Len(config.pre_commit_checks) + 1) :
          config' = [config EXCEPT !.pre_commit_checks = Append(@, check)]
    /\ UNCHANGED <<args, git, pc, pass, i, checks, all_changed_paths, num_failed_checks,
                   failed_fixable_checks, fixable_checks, runs, out, vcs_queries, exit_code>>
    /\ UNCHANGED fp_vars

\* tomlconfig.parse returns; Checks.__init__ (lines 19-22); run_pre_commit is called
parse_return ==
    /\ pc = "parse"
    /\ num_failed_checks' = 0
    /\ failed_fixable_checks' = <<>>
    /\ pc' = "start"
    /\ UNCHANGED <<config, args, git, pass, i, checks, all_changed_paths,
                   fixable_checks, runs, out, vcs_queries, exit_code>>
    /\ UNCHANGED fp_vars

\* mutant: a fix command that exited non-zero counts as a failure of the run
summary_fix_failure_counts ==
    /\ IF failed \/ \E k \in 1..Len(out) : out[k].text = "fix failed"
       THEN /\ out' = Append(out, msg_line("failed. Commit aborted.",
                                          IF failed THEN num_failed_checks ELSE 1))
            /\ exit_code' = 1
       ELSE /\ exit_code' = 0
            /\ UNCHANGED out
    /\ pc' = "done"

\* line 82 and lines 254-261: _summary exits 1 when a check failed; otherwise
\* run_pre_commit returns and the process exits 0
summary ==
    /\ IF failed
       THEN /\ out' = Append(out, msg_line("failed. Commit aborted.", num_failed_checks))
            /\ exit_code' = 1
       ELSE /\ exit_code' = 0
            /\ UNCHANGED out
    /\ pc' = "done"

\* mutant: a --skip name that matches no check is ignored
get_checks_to_run_ignore_unknown ==
    /\ pc = "start"
    /\ LET skip_set == {lower(name) : name \in Range(args.skip)}
           all_checks == config.pre_commit_checks
       IN /\ config' = [config EXCEPT !.pre_commit_checks =
                           [k \in 1..Len(all_checks) |->
                               IF lower(all_checks[k].name) \in skip_set
                               THEN [all_checks[k] EXCEPT !.skip = TRUE]
                               ELSE all_checks[k]]]
          /\ checks' = [k \in 1..Len(all_checks) |-> k]
          /\ pc' = "resolve"
          /\ UNCHANGED <<out, exit_code>>
    /\ UNCHANGED <<args, git, pass, i, all_changed_paths, num_failed_checks,
                   failed_fixable_checks, fixable_checks, runs, vcs_queries>>
    /\ UNCHANGED fp_vars

\* lines 233-249
get_checks_to_run ==
    /\ pc = "start"
    /\ LET skip_set == {lower(name) : name \in Range(args.skip)}
           all_checks == config.pre_commit_checks
           found(name) == \E k \in 1..Len(all_checks) : name = lower(all_checks[k].name)
       IN IF \A name \in skip_set : found(name)
          THEN /\ config' = [config EXCEPT !.pre_commit_checks =
                                [k \in 1..Len(all_checks) |->
                                    IF lower(all_checks[k].name) \in skip_set
                                    THEN [all_checks[k] EXCEPT !.skip = TRUE]
                                    ELSE all_checks[k]]]
               /\ checks' = [k \in 1..Len(all_checks) |-> k]
               /\ pc' = "resolve"
               /\ UNCHANGED <<out, exit_code>>
          ELSE \* IPrecommitError, caught in main(): bail() exits 1
               /\ out' = Append(out, msg_line("Error: not the name of a known check", 0))
               /\ exit_code' = 1
               /\ pc' = "done"
               /\ UNCHANGED <<config, checks>>
    /\ UNCHANGED <<args, git, pass, i, all_changed_paths, num_failed_checks,
                   failed_fixable_checks, fixable_checks, runs, vcs_queries>>
    /\ UNCHANGED fp_vars

\* lines 37-61: resolve the change set, then enter the fix pass or the first check pass
resolve_changes ==
    /\ pc = "resolve"
    /\ all_changed_paths' = resolve_changed_paths(git, args)
    /\ vcs_queries' = Append(vcs_queries, resolve_changed_paths(git, args))
    /\ i' = 1
    /\ IF args.fix_mode
       THEN /\ pc' = "fix"
            /\ fixable_checks' = select_fixable(checks)
            /\ pass' = pass
       ELSE /\ pc' = "check"
            /\ pass' = 1
            /\ UNCHANGED fixable_checks
    /\ UNCHANGED <<config, args, git, checks, num_failed_checks,
                   failed_fixable_checks, runs, out, exit_code>>
    /\ UNCHANGED fp_vars

\* mutant: the files are appended to check.cmd in place (`cmd += ...`)
run_pre_commit_check_extend_in_place ==
    /\ pc = "check"
    /\ i <= Len(checks)
    /\ LET check == the_check(checks[i])
           filtered_changed_paths == filter_paths(pass_changed_paths, check.filters)
           cmd == build_cmd(check, check.cmd, filtered_changed_paths)
       IN IF is_skipped(check, filtered_changed_paths)
          THEN /\ out' = Append(out, status_line(check.name, "skipped"))
               /\ i' = i + 1
               /\ UNCHANGED <<runs, num_failed_checks, failed_fixable_checks>>
          ELSE \E success \in BOOLEAN :
               /\ runs' = Append(runs, run_record("cmd", checks[i], cmd,
                                                  filtered_changed_paths, success))
               /\ IF success
                  THEN /\ out' = out \o <<status_line(check.name, "running"),
                                          status_line(check.name, "passed")>>
                       /\ i' = i + 1
                       /\ UNCHANGED <<num_failed_checks, failed_fixable_checks>>
                  ELSE /\ num_failed_checks' = num_failed_checks + 1
                       /\ failed_fixable_checks' =
                             IF is_failed_fixable(check)
                             THEN Append(failed_fixable_checks, checks[i])
                             ELSE failed_fixable_checks
                       /\ IF should_fail_fast(check) /\ subsequent_checks(i) > 0
                          THEN \* break
                               /\ out' = out \o <<status_line(check.name, "running"),
                                                  status_line(check.name, "failed"),
                                                  msg_line("Failing fast: skipping subsequent checks",
                                                           subsequent_checks(i))>>
                               /\ i' = Len(checks) + 1
                          ELSE /\ out' = out \o <<status_line(check.name, "running"),
                                                  status_line(check.name, "failed")>>
                               /\ i' = i + 1
    /\ config' = IF is_skipped(the_check(checks[i]),
                             filter_paths(pass_changed_paths, the_check(checks[i]).filters))
                  THEN config
                  ELSE [config EXCEPT !.pre_commit_checks[checks[i]].cmd =
                           build_cmd(the_check(checks[i]), @,
                                     filter_paths(pass_changed_paths,
                                                  the_check(checks[i]).filters))]
    /\ UNCHANGED <<args, git, pc, pass, checks, all_changed_paths,
                   fixable_checks, vcs_queries, exit_code>>
    /\ UNCHANGED fp_vars

\* lines 91-123: one iteration of the loop of _run_pre_commit_check
run_pre_commit_check ==
    /\ pc = "check"
    /\ i <= Len(checks)
    /\ LET check == the_check(checks[i])
           filtered_changed_paths == filter_paths(pass_changed_paths, check.filters)
           cmd == build_cmd(check, check.cmd, filtered_changed_paths)
       IN IF is_skipped(check, filtered_changed_paths)
          THEN /\ out' = Append(out, status_line(check.name, "skipped"))
               /\ i' = i + 1
               /\ UNCHANGED <<runs, num_failed_checks, failed_fixable_checks>>
          ELSE \E success \in BOOLEAN :
               /\ runs' = Append(runs, run_record("cmd", checks[i], cmd,
                                                  filtered_changed_paths, success))
               /\ IF success
                  THEN /\ out' = out \o <<status_line(check.name, "running"),
                                          status_line(check.name, "passed")>>
                       /\ i' = i + 1
                       /\ UNCHANGED <<num_failed_checks, failed_fixable_checks>>
                  ELSE /\ num_failed_checks' = num_failed_checks + 1
                       /\ failed_fixable_checks' =
                             IF is_failed_fixable(check)
                             THEN Append(failed_fixable_checks, checks[i])
                             ELSE failed_fixable_checks
                       /\ IF should_fail_fast(check) /\ subsequent_checks(i) > 0
                          THEN \* break
                               /\ out' = out \o <<status_line(check.name, "running"),
                                                  status_line(check.name, "failed"),
                                                  msg_line("Failing fast: skipping subsequent checks",
                                                           subsequent_checks(i))>>
                               /\ i' = Len(checks) + 1
                          ELSE /\ out' = out \o <<status_line(check.name, "running"),
                                                  status_line(check.name, "failed")>>
                               /\ i' = i + 1
    /\ UNCHANGED <<config, args, git, pc, pass, checks, all_changed_paths,
                   fixable_checks, vcs_queries, exit_code>>
    /\ UNCHANGED fp_vars

\* lines 63-71 and 82: the first check pass has returned
after_first_pass ==
    /\ pc = "check"
    /\ pass = 1
    /\ i > Len(checks)
    /\ IF autofix_entered
       THEN /\ out' = Append(out, msg_line("attempting autofix", 0))
            /\ fixable_checks' = select_fixable(autofix_checks)
            /\ i' = 1
            /\ pc' = "fix"
            /\ UNCHANGED exit_code
       ELSE /\ summary
            /\ UNCHANGED <<fixable_checks, i>>
    /\ UNCHANGED <<config, args, git, pass, checks, all_changed_paths, num_failed_checks,
                   failed_fixable_checks, runs, vcs_queries>>
    /\ UNCHANGED fp_vars

\* mutant: the autofix cycle is started again after the retry pass
after_retry_pass_again ==
    /\ pc = "check"
    /\ pass = 2
    /\ i > Len(checks)
    /\ IF autofix_entered
       THEN /\ out' = Append(out, msg_line("attempting autofix", 0))
            /\ fixable_checks' = select_fixable(autofix_checks)
            /\ i' = 1
            /\ pc' = "fix"
            /\ UNCHANGED exit_code
       ELSE /\ summary
            /\ UNCHANGED <<fixable_checks, i>>
    /\ UNCHANGED <<config, args, git, pass, checks, all_changed_paths, num_failed_checks,
                   failed_fixable_checks, runs, vcs_queries>>
    /\ UNCHANGED fp_vars

\* lines 78-82: the retry pass has returned
after_retry_pass ==
    /\ pc = "check"
    /\ pass = 2
    /\ i > Len(checks)
    /\ summary
    /\ UNCHANGED <<config, args, git, pass, i, checks, all_changed_paths, num_failed_checks,
                   failed_fixable_checks, fixable_checks, runs, vcs_queries>>
    /\ UNCHANGED fp_vars

\* mutant: a fix command that exits non-zero ends the fix pass
run_pre_commit_fix_abort ==
    /\ pc = "fix"
    /\ i <= Len(fixable_checks)
    /\ LET check == the_check(fixable_checks[i])
           filtered_changed_paths == filter_paths(all_changed_paths, check.filters)
           cmd == build_cmd(check, check.fix_cmd, filtered_changed_paths)
       IN IF is_skipped(check, filtered_changed_paths)
          THEN /\ out' = Append(out, status_line(check.name, "skipped"))
               /\ UNCHANGED <<runs, git>>
               /\ i' = i + 1
          ELSE \E success \in BOOLEAN :
               \E fixed \in fix_effects(git, filtered_changed_paths) :
               LET fix_run == run_record("fix_cmd", fixable_checks[i], cmd,
                                         filtered_changed_paths, success)
                   add_run == run_record("git_add", fixable_checks[i],
                                         <<"git", "add">> \o filtered_changed_paths,
                                         filtered_changed_paths,
                                         git_add_ok(fixed, filtered_changed_paths))
               IN IF ~success
                  THEN /\ out' = out \o <<status_line(check.name, "fixing"),
                                          status_line(check.name, "fix failed")>>
                       /\ runs' = Append(runs, fix_run)
                       /\ git' = fixed
                       /\ i' = Len(fixable_checks) + 1
                  ELSE IF args.unstaged
                  THEN /\ out' = out \o <<status_line(check.name, "fixing"),
                                          status_line(check.name, "finished")>>
                       /\ runs' = Append(runs, fix_run)
                       /\ git' = fixed
                       /\ i' = i + 1
                  ELSE /\ out' = out \o <<status_line(check.name, "fixing"),
                                          status_line(check.name, "finished")>>
                                  \o (IF add_run.ok THEN <<>>
                                      ELSE <<status_line(check.name,
                                                "staging fixed files with 'git add' failed")>>)
                       /\ runs' = runs \o <<fix_run, add_run>>
                       /\ git' = git_add(fixed, filtered_changed_paths)
                       /\ i' = i + 1
    /\ UNCHANGED <<config, args, pc, pass, checks, all_changed_paths, num_failed_checks,
                   failed_fixable_checks, fixable_checks, vcs_queries, exit_code>>
    /\ UNCHANGED fp_vars

\* mutant: the fixed files are staged whatever --unstaged says
run_pre_commit_fix_always_stage ==
    /\ pc = "fix"
    /\ i <= Len(fixable_checks)
    /\ LET check == the_check(fixable_checks[i])
           filtered_changed_paths == filter_paths(all_changed_paths, check.filters)
           cmd == build_cmd(check, check.fix_cmd, filtered_changed_paths)
       IN IF is_skipped(check, filtered_changed_paths)
          THEN /\ out' = Append(out, status_line(check.name, "skipped"))
               /\ UNCHANGED <<runs, git>>
          ELSE \E success \in BOOLEAN :
               \E fixed \in fix_effects(git, filtered_changed_paths) :
               LET fix_run == run_record("fix_cmd", fixable_checks[i], cmd,
                                         filtered_changed_paths, success)
                   add_run == run_record("git_add", fixable_checks[i],
                                         <<"git", "add">> \o filtered_changed_paths,
                                         filtered_changed_paths,
                                         git_add_ok(fixed, filtered_changed_paths))
               IN IF ~success
                  THEN /\ out' = out \o <<status_line(check.name, "fixing"),
                                          status_line(check.name, "fix failed")>>
                       /\ runs' = Append(runs, fix_run)
                       /\ git' = fixed
                  ELSE /\ out' = out \o <<status_line(check.name, "fixing"),
                                          status_line(check.name, "finished")>>
                                  \o (IF add_run.ok THEN <<>>
                                      ELSE <<status_line(check.name,
                                                "staging fixed files with 'git add' failed")>>)
                       /\ runs' = runs \o <<fix_run, add_run>>
                       /\ git' = git_add(fixed, filtered_changed_paths)
    /\ i' = i + 1
    /\ UNCHANGED <<config, args, pc, pass, checks, all_changed_paths, num_failed_checks,
                   failed_fixable_checks, fixable_checks, vcs_queries, exit_code>>
    /\ UNCHANGED fp_vars

\* lines 133-159: one iteration of the loop of _run_pre_commit_fix
run_pre_commit_fix ==
    /\ pc = "fix"
    /\ i <= Len(fixable_checks)
    /\ LET check == the_check(fixable_checks[i])
           filtered_changed_paths == filter_paths(all_changed_paths, check.filters)
           cmd == build_cmd(check, check.fix_cmd, filtered_changed_paths)
       IN IF is_skipped(check, filtered_changed_paths)
          THEN /\ out' = Append(out, status_line(check.name, "skipped"))
               /\ UNCHANGED <<runs, git>>
          ELSE \E success \in BOOLEAN :
               \E fixed \in fix_effects(git, filtered_changed_paths) :
               LET fix_run == run_record("fix_cmd", fixable_checks[i], cmd,
                                         filtered_changed_paths, success)
                   add_run == run_record("git_add", fixable_checks[i],
                                         <<"git", "add">> \o filtered_changed_paths,
                                         filtered_changed_paths,
                                         git_add_ok(fixed, filtered_changed_paths))
               IN IF ~success
                  THEN /\ out' = out \o <<status_line(check.name, "fixing"),
                                          status_line(check.name, "fix failed")>>
                       /\ runs' = Append(runs, fix_run)
                       /\ git' = fixed
                  ELSE IF args.unstaged
                  THEN /\ out' = out \o <<status_line(check.name, "fixing"),
                                          status_line(check.name, "finished")>>
                       /\ runs' = Append(runs, fix_run)
                       /\ git' = fixed
                  ELSE /\ out' = out \o <<status_line(check.name, "fixing"),
                                          status_line(check.name, "finished")>>
                                  \o (IF add_run.ok THEN <<>>
                                      ELSE <<status_line(check.name,
                                                "staging fixed files with 'git add' failed")>>)
                       /\ runs' = runs \o <<fix_run, add_run>>
                       /\ git' = git_add(fixed, filtered_changed_paths)
    /\ i' = i + 1
    /\ UNCHANGED <<config, args, pc, pass, checks, all_changed_paths, num_failed_checks,
                   failed_fixable_checks, fixable_checks, vcs_queries, exit_code>>
    /\ UNCHANGED fp_vars

\* mutant: the retry pass is handed only the checks that were fixed
after_fix_pass_fixed_only ==
    /\ pc = "fix"
    /\ i > Len(fixable_checks)
    /\ IF args.fix_mode
       THEN /\ summary
            /\ UNCHANGED <<num_failed_checks, failed_fixable_checks, pass, i, checks>>
       ELSE /\ num_failed_checks' = retry_num_failed_checks
            /\ failed_fixable_checks' = <<>>
            /\ out' = Append(out, msg_line("retrying after autofix", 0))
            /\ pass' = 2
            /\ i' = 1
            /\ pc' = "check"
            /\ checks' = fixable_checks
            /\ UNCHANGED exit_code
    /\ UNCHANGED <<config, args, git, all_changed_paths, fixable_checks,
                   runs, vcs_queries>>
    /\ UNCHANGED fp_vars

\* lines 73-80 (after the autofix pass) and line 82 (after `fix`)
after_fix_pass ==
    /\ pc = "fix"
    /\ i > Len(fixable_checks)
    /\ IF args.fix_mode
       THEN /\ summary
            /\ UNCHANGED <<num_failed_checks, failed_fixable_checks, pass, i>>
       ELSE /\ num_failed_checks' = retry_num_failed_checks
            /\ failed_fixable_checks' = <<>>
            /\ out' = Append(out, msg_line("retrying after autofix", 0))
            /\ pass' = 2
            /\ i' = 1
            /\ pc' = "check"
            /\ UNCHANGED exit_code
    /\ UNCHANGED <<config, args, git, checks, all_changed_paths, fixable_checks,
                   runs, vcs_queries>>
    /\ UNCHANGED fp_vars

(***************************************************************************)
(* `iprecommit run` and `iprecommit fix`, staged files, no --skip          *)
(***************************************************************************)
\* main_pre_commit passes --fail-fast; main_fix leaves fail_fast at its default
RunArgs ==
    {a \in [fix_mode : BOOLEAN, unstaged : {FALSE}, all_files : {FALSE},
            fail_fast : BOOLEAN, skip : {<<>>}] : a.fix_mode => ~a.fail_fast}

\* b.txt is staged as a new file, a.py does not exist
Repos == {[p \in Paths |-> IF p = b_txt THEN "A" ELSE "-"]}

\* the top-level keys of the file (tomlconfig.parse, lines 52-53 and 83-89)
TopLevel == [autofix : BOOLEAN, fail_fast : BOOLEAN, pre_commit_checks : {<<>>}]

engine_init(cfg, a, g) ==
    /\ config = cfg
    /\ args = a
    /\ git = g
    /\ pc = "parse"
    /\ pass = 0
    /\ i = 1
    /\ checks = <<>>
    /\ all_changed_paths = <<>>
    /\ num_failed_checks = 0
    /\ failed_fixable_checks = <<>>
    /\ fixable_checks = <<>>
    /\ runs = <<>>
    /\ out = <<>>
    /\ vcs_queries = <<>>
    /\ exit_code = -1

fp_idle ==
    /\ fp_pc = "idle"
    /\ fp_paths = <<>>
    /\ fp_filters = <<>>
    /\ fp_result = <<>>

Init ==
    /\ \E cfg \in TopLevel, a \in RunArgs, g \in Repos : engine_init(cfg, a, g)
    /\ fp_idle

Next ==
    \/ parse_pre_commit_table
    \/ parse_return
    \/ get_checks_to_run
    \/ resolve_changes
    \/ run_pre_commit_check
    \/ after_first_pass
    \/ after_retry_pass
    \/ run_pre_commit_fix
    \/ after_fix_pass

Spec == Init /\ [][Next]_vars

(***************************************************************************)
(* `iprecommit run` and `iprecommit fix` with --skip, --unstaged and       *)
(* pass_files: the same engine, started from other command lines and       *)
(* other [[pre_commit]] tables (fail-fast only by --fail-fast, autofix     *)
(* only by the top-level key)                                              *)
(***************************************************************************)
\* tomlconfig.PreCommitCheck, for the k-th [[pre_commit]] table
PreCommitCheckOptions(k) ==
    {c \in [name : {check_name(k)},
            cmd : {check_cmd(k)},
            fix_cmd : {<<>>, check_fix_cmd(k)},
            pass_files : BOOLEAN,
            filters : FilterChoices,
            working_dir : {None},
            fail_fast : {FALSE},
            autofix : {FALSE},
            skip : BOOLEAN] : ~(c.skip /\ c.filters # <<>>)}

\* tomlconfig.parse, lines 91-133: one iteration of the loop over the
\* [[pre_commit]] tables of the file
parse_pre_commit_table_options ==
    /\ pc = "parse"
    /\ Len(config.pre_commit_checks) < MaxChecks
    /\ \E check \in PreCommitCheckOptions(Len(config.pre_commit_checks) + 1) :
          config' = [config EXCEPT !.pre_commit_checks = Append(@, check)]
    /\ UNCHANGED <<args, git, pc, pass, i, checks, all_changed_paths, num_failed_checks,
                   failed_fixable_checks, fixable_checks, runs, out, vcs_queries, exit_code>>
    /\ UNCHANGED fp_vars

\* the values of --skip: none, the first check as named in the file, the
\* second check in lower case; a name is unknown when the file declares
\* fewer checks
SkipLists == {<<>>, <<check_name(1)>>, <<lower(check_name(2))>>}

\* main_pre_commit passes --fail-fast; main_fix leaves fail_fast at its default
OptionArgs ==
    {a \in [fix_mode : BOOLEAN, unstaged : BOOLEAN, all_files : {FALSE},
            fail_fast : BOOLEAN, skip : SkipLists] : a.fix_mode => ~a.fail_fast}

\* b.txt is staged as a new file, a.py is tracked and modified but not staged
OptionRepos == {[p \in Paths |-> IF p = b_txt THEN "A" ELSE "m"]}

OptionTopLevel == [autofix : BOOLEAN, fail_fast : {FALSE}, pre_commit_checks : {<<>>}]

OptionInit ==
    /\ \E cfg \in OptionTopLevel, a \in OptionArgs, g \in OptionRepos : engine_init(cfg, a, g)
    /\ fp_idle

OptionNext ==
    \/ parse_pre_commit_table_options
    \/ parse_return
    \/ get_checks_to_run
    \/ resolve_changes
    \/ run_pre_commit_check
    \/ after_first_pass
    \/ after_retry_pass
    \/ run_pre_commit_fix
    \/ after_fix_pass

SpecOptions == OptionInit /\ [][OptionNext]_vars

(***************************************************************************)
(* A direct call of filter_paths (as in TestUnit.test_filter_paths)        *)
(***************************************************************************)
Candidates == {a_py, a_txt, b_txt, c_py}

Globs == {star_py, q_txt, c_py, b_txt}

Patterns == Globs \cup {Bang(g) : g \in Globs}

no_duplicates(s) == \A j, k \in 1..Len(s) : j # k => s[j] # s[k]

CandidateLists ==
    {s \in UNION {[1..n -> Candidates] : n \in 0..MaxCandidates} : no_duplicates(s)}

FilterChains == UNION {[1..n -> Patterns] : n \in 0..MaxFilters}

engine_idle ==
    /\ config = [autofix |-> FALSE, fail_fast |-> FALSE, pre_commit_checks |-> <<>>]
    /\ args = [fix_mode |-> FALSE, unstaged |-> FALSE, all_files |-> FALSE,
               fail_fast |-> FALSE, skip |-> <<>>]
    /\ git = [p \in Paths |-> "-"]
    /\ pc = "idle"
    /\ pass = 0
    /\ i = 1
    /\ checks = <<>>
    /\ all_changed_paths = <<>>
    /\ num_failed_checks = 0
    /\ failed_fixable_checks = <<>>
    /\ fixable_checks = <<>>
    /\ runs = <<>>
    /\ out = <<>>
    /\ vcs_queries = <<>>
    /\ exit_code = -1

FilterInit ==
    /\ engine_idle
    /\ fp_pc = "call"
    /\ fp_paths \in CandidateLists
    /\ fp_filters \in FilterChains
    /\ fp_result = <<>>

call_filter_paths ==
    /\ fp_pc = "call"
    /\ fp_result' = filter_paths(fp_paths, fp_filters)
    /\ fp_pc' = "return"
    /\ UNCHANGED <<fp_paths, fp_filters>>
    /\ UNCHANGED engine_vars

FilterNext == call_filter_paths

SpecFilter == FilterInit /\ [][FilterNext]_vars

(***************************************************************************)
(* `iprecommit run` and `iprecommit fix` with --only.  main_pre_commit and *)
(* main_fix hand `only=args.only` to run_pre_commit (main.py, lines 152    *)
(* and 205); the selection step that receives it is described by the       *)
(* specification and by TestEndToEnd.test_only_check: the checks that are  *)
(* not named get skip = true before the run starts, and a name that        *)
(* matches no check is the same fatal error as for --skip.                 *)
(***************************************************************************)
\* the selection step for --only (names compared as for --skip); without
\* --only every check keeps its skip flag
get_checks_to_run_only ==
    /\ pc = "start"
    /\ LET only_set == {lower(name) : name \in Range(args.only)}
           all_checks == config.pre_commit_checks
           found(name) == \E k \in 1..Len(all_checks) : name = lower(all_checks[k].name)
       IN IF \A name \in only_set : found(name)
          THEN /\ config' = [config EXCEPT !.pre_commit_checks =
                                [k \in 1..Len(all_checks) |->
                                    IF only_set # {} /\ lower(all_checks[k].name) \notin only_set
                                    THEN [all_checks[k] EXCEPT !.skip = TRUE]
                                    ELSE all_checks[k]]]
               /\ checks' = [k \in 1..Len(all_checks) |-> k]
               /\ pc' = "resolve"
               /\ UNCHANGED <<out, exit_code>>
          ELSE \* IPrecommitError, caught in main(): bail() exits 1
               /\ out' = Append(out, msg_line("Error: not the name of a known check", 0))
               /\ exit_code' = 1
               /\ pc' = "done"
               /\ UNCHANGED <<config, checks>>
    /\ UNCHANGED <<args, git, pass, i, all_changed_paths, num_failed_checks,
                   failed_fixable_checks, fixable_checks, runs, vcs_queries>>
    /\ UNCHANGED fp_vars

\* the values of --only (main.py, lines 70-77): not given, one check, the
\* other check, both; a name is unknown when the file declares fewer checks
OnlyLists == {<<>>, <<check_name(1)>>, <<check_name(2)>>, <<check_name(2), check_name(1)>>}

\* main_pre_commit passes --fail-fast; main_fix leaves fail_fast at its default
OnlyArgs ==
    {a \in [fix_mode : BOOLEAN, unstaged : {FALSE}, all_files : {FALSE},
            fail_fast : BOOLEAN, skip : {<<>>}, only : OnlyLists] :
        a.fix_mode => ~a.fail_fast}

OnlyInit ==
    /\ \E cfg \in OptionTopLevel, a \in OnlyArgs, g \in Repos : engine_init(cfg, a, g)
    /\ fp_idle

OnlyNext ==
    \/ parse_pre_commit_table_options
    \/ parse_return
    \/ get_checks_to_run_only
    \/ resolve_changes
    \/ run_pre_commit_check
    \/ after_first_pass
    \/ after_retry_pass
    \/ run_pre_commit_fix
    \/ after_fix_pass

SpecOnly == OnlyInit /\ [][OnlyNext]_vars

(***************************************************************************)
(* `iprecommit run` and `iprecommit fix` in every mode of change-set       *)
(* resolution (default, --unstaged, --all) over repositories in which each *)
(* path may be staged, modified, deleted, untracked, clean or absent       *)
(***************************************************************************)
\* tomlconfig.PreCommitCheck, for the k-th [[pre_commit]] table: a check
\* with a fix_cmd that is given the files it selects
PreCommitCheckChanges(k) ==
    [name : {check_name(k)},
     cmd : {check_cmd(k)},
     fix_cmd : {check_fix_cmd(k)},
     pass_files : {TRUE},
     filters : FilterChoices,
     working_dir : {None},
     fail_fast : {FALSE},
     autofix : {FALSE},
     skip : {FALSE}]

\* tomlconfig.parse, lines 91-133: one iteration of the loop over the
\* [[pre_commit]] tables of the file
parse_pre_commit_table_changes ==
    /\ pc = "parse"
    /\ Len(config.pre_commit_checks) < MaxChecks
    /\ \E check \in PreCommitCheckChanges(Len(config.pre_commit_checks) + 1) :
          config' = [config EXCEPT !.pre_commit_checks = Append(@, check)]
    /\ UNCHANGED <<args, git, pc, pass, i, checks, all_changed_paths, num_failed_checks,
                   failed_fixable_checks, fixable_checks, runs, out, vcs_queries, exit_code>>
    /\ UNCHANGED fp_vars

\* --unstaged and --all exclude each other (main.py, lines 52-59; the assert
\* of checks.py, line 35)
ChangeArgs ==
    {a \in [fix_mode : BOOLEAN, unstaged : BOOLEAN, all_files : BOOLEAN,
            fail_fast : {FALSE}, skip : {<<>>}] : ~(a.unstaged /\ a.all_files)}

ChangeRepos == [Paths -> Status]

ChangeInit ==
    /\ \E cfg \in OptionTopLevel, a \in ChangeArgs, g \in ChangeRepos : engine_init(cfg, a, g)
    /\ fp_idle

ChangeNext ==
    \/ parse_pre_commit_table_changes
    \/ parse_return
    \/ get_checks_to_run
    \/ resolve_changes
    \/ run_pre_commit_check
    \/ after_first_pass
    \/ after_retry_pass
    \/ run_pre_commit_fix
    \/ after_fix_pass

SpecChanges == ChangeInit /\ [][ChangeNext]_vars

(***************************************************************************)
(* main() and _main() (main.py): the working tree is located, the          *)
(* IPRECOMMIT_DEBUG dump is made, the subcommand is dispatched,            *)
(* tomlconfig.parse validates the file, and `run` / `fix` enter the        *)
(* engine.  Before the dispatch `args` holds the parsed command line and   *)
(* what the process reads of its environment; main_pre_commit and main_fix *)
(* replace it by the keyword arguments of run_pre_commit.                  *)
(***************************************************************************)
\* the current directory is at most this many levels below the root directory
MaxDepth == 2

\* mutant: errors have an exit status of their own
bail_exit_2(msg) ==
    /\ out' = Append(out, msg_line(msg, 0))
    /\ exit_code' = 2
    /\ pc' = "done"

\* common.py, lines 6-8: print the error to stderr, exit 1
bail(msg) ==
    /\ out' = Append(out, msg_line(msg, 0))
    /\ exit_code' = 1
    /\ pc' = "done"

\* mutant: without a .git entry anywhere, the current directory is taken
find_git_root_or_cwd(d, dot_git) ==
    IF \E k \in 0..d : k \in dot_git
    THEN CHOOSE k \in 0..d : k \in dot_git /\ \A j \in (k + 1)..d : j \notin dot_git
    ELSE d

\* main.py, lines 478-487.  A directory is its depth below the root
\* directory (0, its own parent); dot_git is the set of directories that
\* hold a .git entry.  The result is the working tree's root, or -1 where
\* the code raises IPrecommitError.
RECURSIVE find_git_root(_, _)
find_git_root(d, dot_git) ==
    IF d \in dot_git THEN d
    ELSE IF d = 0 THEN -1
    ELSE find_git_root(d - 1, dot_git)

\* main.py, lines 156-158: v is the value of IPRECOMMIT_DEBUG, None if unset
in_debug_mode(v) == v # None /\ v # <<"0">>

\* line.split("=", maxsplit=1)
split_once(line) ==
    LET eq == {k \in 1..Len(line) : line[k] = "="}
    IN IF eq = {} THEN <<line>>
       ELSE LET k == CHOOSE x \in eq : \A y \in eq : x <= y
            IN <<SubSeq(line, 1, k - 1), SubSeq(line, k + 1, Len(line))>>

\* main.py, lines 496-500: the lines `git config --list` printed, each split
\* at its first "="
get_git_config(stdout) == [k \in 1..Len(stdout) |-> split_once(stdout[k])]

\* key.startswith("core.")
starts_with_core(key) == Len(key) >= 5 /\ SubSeq(key, 1, 5) = <<"c", "o", "r", "e", ".">>

\* main.py, lines 178-181, the else branch of the try: one line per core.*
\* key.  `for key, value in git_config` needs every item to have two
\* elements; the result is <<lines printed, completed>>, completed being
\* FALSE when an item cannot be unpacked (ValueError).
RECURSIVE print_git_config(_)
print_git_config(git_config) ==
    IF git_config = <<>> THEN <<<<>>, TRUE>>
    ELSE IF Len(Head(git_config)) # 2 THEN <<<<>>, FALSE>>
    ELSE LET rest == print_git_config(Tail(git_config))
             line == IF starts_with_core(Head(git_config)[1])
                     THEN <<msg_line("debug: git config", 0)>>
                     ELSE <<>>
         IN <<line \o rest[1], rest[2]>>

\* `sub in s`
contains(s, sub) ==
    \E k \in 1..(Len(s) - Len(sub) + 1) : SubSeq(s, k, k + Len(sub) - 1) = sub

\* mutant: the message never suggests a key
ensure_dict_empty_no_hint(d) ==
    IF d = <<>> THEN ""
    ELSE "Error: a key that iprecommit does not recognize"

\* tomlconfig.py, lines 210-226: d is the keys left in a table after every
\* known key was popped; "" if it is empty, otherwise the error message
ensure_dict_empty(d) ==
    IF d = <<>> THEN ""
    ELSE LET key_lower == lower(d[1])
         IN IF contains(key_lower, <<"f", "a", "i", "l">>)
            THEN "Error: a key that iprecommit does not recognize (Did you mean 'fail_fast'?)"
            ELSE IF contains(key_lower, <<"a", "u", "t", "o">>)
                    \/ contains(key_lower, <<"f", "i", "x">>)
                 THEN "Error: a key that iprecommit does not recognize (Did you mean 'autofix'?)"
                 ELSE "Error: a key that iprecommit does not recognize"

\* main.py, line 120: every subcommand starts by locating the working tree
main_git_root ==
    /\ pc = "main"
    /\ IF find_git_root(args.cwd, args.dot_git) = -1
       THEN bail("Error: iprecommit must be run in a Git repository.")
       ELSE /\ pc' = "debug"
            /\ UNCHANGED <<out, exit_code>>
    /\ UNCHANGED <<config, args, git, pass, i, checks, all_changed_paths, num_failed_checks,
                   failed_fixable_checks, fixable_checks, runs, vcs_queries>>
    /\ UNCHANGED fp_vars

\* main.py, lines 122-123 and 161-192: the dump goes to stderr (GIT_*
\* variables are not modelled).  The version
\* lookups print their value or their failure, one line either way; a
\* failure of `git config --list` (args.git_config = None) is caught and
\* printed; an item of the list that cannot be unpacked raises ValueError in
\* the else branch, outside the try, and main() catches IPrecommitError only:
\* the process ends with a traceback and exit status 1.
print_debugging_info ==
    /\ pc = "debug"
    /\ IF ~in_debug_mode(args.IPRECOMMIT_DEBUG)
       THEN /\ pc' = "dispatch"
            /\ UNCHANGED <<out, exit_code>>
       ELSE LET versions == <<msg_line("debug: iprecommit version", 0),
                              msg_line("debug: git version", 0)>>
                rest == <<msg_line("debug: env: PATH", 0),
                          msg_line("debug: git root", 0),
                          msg_line("debug: arg", 0)>>
            IN IF args.git_config = None
               THEN /\ out' = out \o versions
                                  \o <<msg_line("debug: failed to get git config", 0)>> \o rest
                    /\ pc' = "dispatch"
                    /\ UNCHANGED exit_code
               ELSE LET printed == print_git_config(get_git_config(args.git_config))
                    IN IF printed[2]
                       THEN /\ out' = out \o versions \o printed[1] \o rest
                            /\ pc' = "dispatch"
                            /\ UNCHANGED exit_code
                       ELSE /\ out' = out \o versions \o printed[1]
                                          \o <<msg_line("Traceback: ValueError", 0)>>
                            /\ exit_code' = 1
                            /\ pc' = "done"
    /\ UNCHANGED <<config, args, git, pass, i, checks, all_changed_paths, num_failed_checks,
                   failed_fixable_checks, fixable_checks, runs, vcs_queries>>
    /\ UNCHANGED fp_vars

\* main.py, lines 125-138, 141-153 and 195-206: `run` and `fix` go on to load
\* the configuration and call run_pre_commit with these keyword arguments
\* (main_fix passes no fail_fast); the handlers of the other subcommands are
\* not followed: they end with exit status 0 or 1.  IPRECOMMIT_SKIP is kept
\* beside the keyword arguments: it stays in the environment of the process,
\* where neither main.py nor checks.py reads it
main_dispatch ==
    /\ pc = "dispatch"
    /\ IF args.subcmd \in {"run", "fix"}
       THEN /\ args' = [fix_mode |-> args.subcmd = "fix",
                        unstaged |-> args.unstaged,
                        all_files |-> args.all,
                        fail_fast |-> args.subcmd = "run" /\ args.fail_fast,
                        skip |-> args.skip,
                        IPRECOMMIT_SKIP |-> args.IPRECOMMIT_SKIP]
            /\ pc' = "load"
            /\ UNCHANGED exit_code
       ELSE /\ exit_code' \in {0, 1}
            /\ pc' = "done"
            /\ UNCHANGED args
    /\ UNCHANGED <<config, git, pass, i, checks, all_changed_paths, num_failed_checks,
                   failed_fixable_checks, fixable_checks, runs, out, vcs_queries>>
    /\ UNCHANGED fp_vars

\* tomlconfig.parse, lines 45-89: the top-level table.  Before this step
\* `config` is the file: its top-level values and the keys the loader does
\* not know.
tomlconfig_parse ==
    /\ pc = "load"
    /\ IF ensure_dict_empty(config.unknown_keys) # ""
       THEN /\ bail(ensure_dict_empty(config.unknown_keys))
            /\ UNCHANGED config
       ELSE /\ config' = [autofix |-> config.autofix,
                          fail_fast |-> config.fail_fast,
                          pre_commit_checks |-> <<>>]
            /\ pc' = "parse"
            /\ UNCHANGED <<out, exit_code>>
    /\ UNCHANGED <<args, git, pass, i, checks, all_changed_paths, num_failed_checks,
                   failed_fixable_checks, fixable_checks, runs, vcs_queries>>
    /\ UNCHANGED fp_vars

\* keys no table knows
fail_fats == <<"f", "a", "i", "l", "_", "f", "a", "t", "s">>
auto_fix == <<"a", "u", "t", "o", "_", "f", "i", "x">>
colour == <<"c", "o", "l", "o", "u", "r">>

UnknownKeys == {fail_fats, auto_fix, colour}

\* tomlconfig.parse, lines 91-118: a [[pre_commit]] table that holds a key
\* the loader does not know; `pre_commit_toml` is what is left of that table
\* when ensure_dict_empty looks at it
parse_pre_commit_table_unknown_key ==
    /\ pc = "parse"
    /\ Len(config.pre_commit_checks) < MaxChecks
    /\ \E key \in UnknownKeys :
          /\ bail(ensure_dict_empty(<<key>>))
          /\ config' = [f \in DOMAIN config \cup {"pre_commit_toml"} |->
                           IF f = "pre_commit_toml" THEN <<key>> ELSE config[f]]
    /\ UNCHANGED <<args, git, pass, i, checks, all_changed_paths, num_failed_checks,
                   failed_fixable_checks, fixable_checks, runs, vcs_queries>>
    /\ UNCHANGED fp_vars

\* tomlconfig.PreCommitCheck, for the k-th [[pre_commit]] table
PreCommitCheckMain(k) ==
    [name : {check_name(k)},
     cmd : {check_cmd(k)},
     fix_cmd : {<<>>, check_fix_cmd(k)},
     pass_files : {TRUE},
     filters : {<<>>},
     working_dir : {None},
     fail_fast : {FALSE},
     autofix : {FALSE},
     skip : {FALSE}]

\* tomlconfig.parse, lines 91-133: one iteration of the loop over the
\* [[pre_commit]] tables of the file
parse_pre_commit_table_main ==
    /\ pc = "parse"
    /\ Len(config.pre_commit_checks) < MaxChecks
    /\ \E check \in PreCommitCheckMain(Len(config.pre_commit_checks) + 1) :
          config' = [config EXCEPT !.pre_commit_checks = Append(@, check)]
    /\ UNCHANGED <<args, git, pc, pass, i, checks, all_changed_paths, num_failed_checks,
                   failed_fixable_checks, fixable_checks, runs, out, vcs_queries, exit_code>>
    /\ UNCHANGED fp_vars

\* main.py, lines 20-110: the subcommands
Subcommands == {"install", "uninstall", "run", "fix", "run-commit-msg", "run-pre-push"}

\* values of IPRECOMMIT_DEBUG: unset, "0", "1", the empty string
DebugValues == {None, <<"0">>, <<"1">>, <<>>}

core_editor == <<"c", "o", "r", "e", ".", "e", "=", "v", "i">>
user_name == <<"u", "s", "e", "r", ".", "n", "=", "a", "=", "b">>
core_bare == <<"c", "o", "r", "e", ".", "b", "a", "r", "e">>

\* what `git config --list` prints: it failed (None), nothing, key=value
\* lines, or also a key that has no value, which git prints without "="
GitConfigOutputs ==
    {None, <<>>, <<core_editor, user_name>>, <<core_editor, core_bare>>}

\* values of IPRECOMMIT_SKIP: unset, or the name of the first check (the
\* value is written as the list of the names between its commas)
SkipValues == {None, <<check_name(1)>>}

\* the command line and the environment of the process
MainArgs ==
    [subcmd : Subcommands,
     unstaged : {FALSE},
     all : {FALSE},
     fail_fast : {FALSE},
     skip : {<<>>, <<check_name(2)>>},
     cwd : 0..MaxDepth,
     dot_git : SUBSET (0..MaxDepth),
     IPRECOMMIT_DEBUG : DebugValues,
     IPRECOMMIT_SKIP : SkipValues,
     git_config : GitConfigOutputs]

\* the file: its top-level values and its unknown top-level keys, in order
MainFiles ==
    [autofix : BOOLEAN, fail_fast : {FALSE},
     unknown_keys : {<<>>, <<colour>>, <<auto_fix, fail_fats>>, <<fail_fats, colour>>}]

MainInit ==
    /\ config \in MainFiles
    /\ args \in MainArgs
    /\ git \in Repos
    /\ pc = "main"
    /\ pass = 0
    /\ i = 1
    /\ checks = <<>>
    /\ all_changed_paths = <<>>
    /\ num_failed_checks = 0
    /\ failed_fixable_checks = <<>>
    /\ fixable_checks = <<>>
    /\ runs = <<>>
    /\ out = <<>>
    /\ vcs_queries = <<>>
    /\ exit_code = -1
    /\ fp_idle

MainNext ==
    \/ main_git_root
    \/ print_debugging_info
    \/ main_dispatch
    \/ tomlconfig_parse
    \/ parse_pre_commit_table_unknown_key
    \/ parse_pre_commit_table_main
    \/ parse_return
    \/ get_checks_to_run
    \/ resolve_changes
    \/ run_pre_commit_check
    \/ after_first_pass
    \/ after_retry_pass
    \/ run_pre_commit_fix
    \/ after_fix_pass

SpecMain == MainInit /\ [][MainNext]_vars

(***************************************************************************)
(* `iprecommit run` and `iprecommit fix` in a repository that may have no  *)
(* commit yet.  The repository then also records, under the key HEAD,      *)
(* whether the ref HEAD resolves: without a commit nothing is tracked,     *)
(* `git diff HEAD` and `git ls-tree -r HEAD` end with status 128 and an    *)
(* empty standard output, while `git diff --cached` and `git ls-files`     *)
(* work as usual.                                                          *)
(***************************************************************************)
HEAD == <<"H", "E", "A", "D">>

has_head(g) == g[HEAD] # "-"

\* githelper._filter_paths, lines 99-102: the subprocess.run of `git diff <ref>`
git_diff(g, filter_string, include_unstaged) ==
    IF include_unstaged /\ ~has_head(g)
    THEN [returncode |-> 128, stdout |-> <<>>]
    ELSE [returncode |-> 0, stdout |-> git_filter_paths(g, filter_string, include_unstaged)]

\* githelper.get_tracked_files, lines 61-65: the subprocess.run of `git ls-tree -r HEAD`
git_ls_tree(g) ==
    IF ~has_head(g)
    THEN [returncode |-> 128, stdout |-> <<>>]
    ELSE [returncode |-> 0, stdout |-> get_tracked_files(g)]

\* githelper._filter_paths, line 103: the standard output is decoded, the
\* return code is not looked at
decoded_diff(g, filter_string, include_unstaged) ==
    git_diff(g, filter_string, include_unstaged).stdout

\* run_pre_commit, lines 37-52, over the subprocess results: get_tracked_files
\* runs with check=True and raises CalledProcessError on a non-zero status
\* (it is the first query of the --all branch); the diff queries do not
resolve_changed_paths_query(g, a) ==
    IF a.all_files
    THEN IF git_ls_tree(g).returncode # 0
         THEN [raised |-> TRUE, paths |-> <<>>]
         ELSE [raised |-> FALSE,
               paths |-> sorted_difference(
                             git_ls_tree(g).stdout
                                 \o decoded_diff(g, "A", TRUE) \o decoded_diff(g, "M", TRUE)
                                 \o get_untracked_files(g),
                             decoded_diff(g, "D", TRUE))]
    ELSE [raised |-> FALSE,
          paths |-> decoded_diff(g, "A", a.unstaged) \o decoded_diff(g, "M", a.unstaged)
                        \o get_untracked_files(g)]

\* run_pre_commit, lines 37-61, in such a repository; CalledProcessError is
\* not an IPrecommitError, so main() (main.py, lines 112-116) does not catch
\* it: the process ends with a traceback and exit status 1
resolve_changes_query ==
    /\ pc = "resolve"
    /\ LET resolved == resolve_changed_paths_query(git, args)
       IN IF resolved.raised
          THEN /\ out' = Append(out, msg_line("Traceback: CalledProcessError", 0))
               /\ exit_code' = 1
               /\ pc' = "done"
               /\ UNCHANGED <<all_changed_paths, vcs_queries, i, pass, fixable_checks>>
          ELSE /\ all_changed_paths' = resolved.paths
               /\ vcs_queries' = Append(vcs_queries, resolved.paths)
               /\ i' = 1
               /\ IF args.fix_mode
                  THEN /\ pc' = "fix"
                       /\ fixable_checks' = select_fixable(checks)
                       /\ pass' = pass
                  ELSE /\ pc' = "check"
                       /\ pass' = 1
                       /\ UNCHANGED fixable_checks
               /\ UNCHANGED <<out, exit_code>>
    /\ UNCHANGED <<config, args, git, checks, num_failed_checks,
                   failed_fixable_checks, runs>>
    /\ UNCHANGED fp_vars

\* without a commit a path is staged as new, untracked or absent
QueryRepos ==
    {g \in [Paths \cup {HEAD} -> Status] :
        /\ g[HEAD] \in {"T", "-"}
        /\ ~has_head(g) => \A p \in Paths : g[p] \in {"A", "U", "-"}}

QueryInit ==
    /\ \E cfg \in OptionTopLevel, a \in ChangeArgs, g \in QueryRepos : engine_init(cfg, a, g)
    /\ fp_idle

QueryNext ==
    \/ parse_pre_commit_table_changes
    \/ parse_return
    \/ get_checks_to_run
    \/ resolve_changes_query
    \/ run_pre_commit_check
    \/ after_first_pass
    \/ after_retry_pass
    \/ run_pre_commit_fix
    \/ after_fix_pass

SpecQuery == QueryInit /\ [][QueryNext]_vars

(***************************************************************************)
(* `iprecommit run-commit-msg` and `iprecommit run-pre-push`               *)
(* (Checks.run_commit_msg and Checks.run_pre_push), entered with the       *)
(* loaded configuration.  `args` holds the command line of the hook;       *)
(* in run_pre_push `all_changed_paths` holds the local `commits`, the      *)
(* hashes that `git log <last pushed>..HEAD` lists.                        *)
(***************************************************************************)
\* tomlconfig.py, lines 22-31 and 135-153: the checks of n [[commit_msg]] or
\* [[pre_push]] tables, each a name and a cmd
HookChecks(n) == [k \in 1..n |-> [name |-> check_name(k), cmd |-> check_cmd(k)]]

HookConfigs ==
    {[autofix |-> a, fail_fast |-> f, pre_commit_checks |-> <<>>,
      commit_msg_checks |-> HookChecks(n), pre_push_checks |-> HookChecks(m)] :
        a \in BOOLEAN, f \in BOOLEAN, n \in 0..MaxChecks, m \in 0..MaxChecks}

commit_editmsg == <<"M", "S", "G">>
origin == <<"o">>
h1 == <<"h", "1">>
h2 == <<"h", "2">>

\* githelper.get_commits: no commit, one commit or two commits to push
CommitLists == {<<>>, <<h1>>, <<h2, h1>>}

HookArgs ==
    [subcmd : {"run-commit-msg", "run-pre-push"},
     commit_msg : {commit_editmsg},
     remote : {origin}]

\* mutant: a failure ends the loop when the top-level fail_fast is set
next_hook_check_fail_fast(idx, success, n) ==
    IF ~success /\ config.fail_fast THEN n + 1 ELSE idx + 1

\* checks.py, lines 169 and 202: the for loops have no break
next_hook_check(idx, success, n) == idx + 1

\* one iteration of the loops of run_commit_msg (lines 169-181) and
\* run_pre_push (lines 202-214) over `list`, `extra` being the words put
\* after check.cmd
run_hook_check(what, list, extra) ==
    /\ i <= Len(list)
    /\ \E success \in BOOLEAN :
          /\ runs' = Append(runs, run_record(what, i, list[i].cmd \o extra, <<>>, success))
          /\ out' = out \o <<status_line(list[i].name, "running"),
                             status_line(list[i].name, IF success THEN "passed" ELSE "failed")>>
          /\ num_failed_checks' = IF success THEN num_failed_checks ELSE num_failed_checks + 1
          /\ i' = next_hook_check(i, success, Len(list))
    /\ UNCHANGED <<config, args, git, pc, pass, checks, all_changed_paths,
                   failed_fixable_checks, fixable_checks, vcs_queries, exit_code>>
    /\ UNCHANGED fp_vars

\* lines 161-167: nothing to do without [[commit_msg]] checks
run_commit_msg ==
    /\ pc = "hook"
    /\ args.subcmd = "run-commit-msg"
    /\ IF Len(config.commit_msg_checks) = 0
       THEN /\ exit_code' = 0
            /\ pc' = "done"
            /\ UNCHANGED out
       ELSE /\ out' = Append(out, msg_line("checking commit message", 0))
            /\ pc' = "commit_msg"
            /\ UNCHANGED exit_code
    /\ i' = 1
    /\ UNCHANGED <<config, args, git, pass, checks, all_changed_paths, num_failed_checks,
                   failed_fixable_checks, fixable_checks, runs, vcs_queries>>
    /\ UNCHANGED fp_vars

\* lines 169-181
run_commit_msg_check ==
    /\ pc = "commit_msg"
    /\ run_hook_check("commit_msg_cmd", config.commit_msg_checks, <<args.commit_msg>>)

\* lines 183-195: the commit message is printed after a failure, then _summary("Commit")
commit_msg_return ==
    /\ pc = "commit_msg"
    /\ i > Len(config.commit_msg_checks)
    /\ IF failed
       THEN /\ out' = out \o <<msg_line("commit message (also at .git/COMMIT_EDITMSG)", 0),
                               msg_line("end commit message", 0),
                               msg_line("failed. Commit aborted.", num_failed_checks)>>
            /\ exit_code' = 1
       ELSE /\ exit_code' = 0
            /\ UNCHANGED out
    /\ pc' = "done"
    /\ UNCHANGED <<config, args, git, pass, i, checks, all_changed_paths, num_failed_checks,
                   failed_fixable_checks, fixable_checks, runs, vcs_queries>>
    /\ UNCHANGED fp_vars

\* lines 198-200: the commits that are about to be pushed
run_pre_push ==
    /\ pc = "hook"
    /\ args.subcmd = "run-pre-push"
    /\ \E commits \in CommitLists :
          /\ all_changed_paths' = commits
          /\ vcs_queries' = Append(vcs_queries, commits)
    /\ pc' = "pre_push"
    /\ i' = 1
    /\ UNCHANGED <<config, args, git, pass, checks, num_failed_checks,
                   failed_fixable_checks, fixable_checks, runs, out, exit_code>>
    /\ UNCHANGED fp_vars

\* lines 202-214
run_pre_push_check ==
    /\ pc = "pre_push"
    /\ run_hook_check("pre_push_cmd", config.pre_push_checks, all_changed_paths)

\* line 216: _summary("Push")
pre_push_return ==
    /\ pc = "pre_push"
    /\ i > Len(config.pre_push_checks)
    /\ IF failed
       THEN /\ out' = Append(out, msg_line("failed. Push aborted.", num_failed_checks))
            /\ exit_code' = 1
       ELSE /\ exit_code' = 0
            /\ UNCHANGED out
    /\ pc' = "done"
    /\ UNCHANGED <<config, args, git, pass, i, checks, all_changed_paths, num_failed_checks,
                   failed_fixable_checks, fixable_checks, runs, vcs_queries>>
    /\ UNCHANGED fp_vars

HookInit ==
    /\ config \in HookConfigs
    /\ args \in HookArgs
    /\ git \in Repos
    /\ pc = "hook"
    /\ pass = 0
    /\ i = 1
    /\ checks = <<>>
    /\ all_changed_paths = <<>>
    /\ num_failed_checks = 0
    /\ failed_fixable_checks = <<>>
    /\ fixable_checks = <<>>
    /\ runs = <<>>
    /\ out = <<>>
    /\ vcs_queries = <<>>
    /\ exit_code = -1
    /\ fp_idle

HookNext ==
    \/ run_commit_msg
    \/ run_commit_msg_check
    \/ commit_msg_return
    \/ run_pre_push
    \/ run_pre_push_check
    \/ pre_push_return

SpecHooks == HookInit /\ [][HookNext]_vars

(***************************************************************************)
(* `iprecommit run` and `iprecommit fix` over checks that declare a        *)
(* working_dir.  `args` holds, beside the keyword arguments, the current   *)
(* directory of the process (main_pre_commit and main_fix have moved it to *)
(* the root of the working tree), and each record of `runs` holds the      *)
(* directory its command was started in.                                   *)
(***************************************************************************)
git_root == <<"/", "r">>
subdir == <<"s", "u", "b">>

\* os.chdir(path) in a process whose current directory is d
chdir(d, path) == IF startswith(path, "/") THEN path ELSE d \o <<"/">> \o path

\* _run_one, lines 225-229: the directory the command is started in
run_one_dir(d, working_dir) == IF working_dir # None THEN chdir(d, working_dir) ELSE d

\* mutant: os.chdir(working_dir) without the way back
run_one_cwd_after_stay(d, working_dir) == run_one_dir(d, working_dir)

\* _run_one, line 226: contextlib.chdir goes back to the directory it came
\* from when the block is left, whatever status the command ended with
run_one_cwd_after(d, working_dir) == d

run_record_in(dir, what, check, argv, files, ok) ==
    [what |-> what, pass |-> pass, check |-> check, argv |-> argv, files |-> files,
     ok |-> ok, cwd |-> dir]

\* tomlconfig.PreCommitCheck, for the k-th [[pre_commit]] table: a check
\* with a fix_cmd, with or without a working_dir
PreCommitCheckWorkingDir(k) ==
    [name : {check_name(k)},
     cmd : {check_cmd(k)},
     fix_cmd : {check_fix_cmd(k)},
     pass_files : BOOLEAN,
     filters : {<<>>},
     working_dir : {None, subdir},
     fail_fast : {FALSE},
     autofix : {FALSE},
     skip : {FALSE}]

\* tomlconfig.parse, lines 91-133: one iteration of the loop over the
\* [[pre_commit]] tables of the file
parse_pre_commit_table_working_dir ==
    /\ pc = "parse"
    /\ Len(config.pre_commit_checks) < MaxChecks
    /\ \E check \in PreCommitCheckWorkingDir(Len(config.pre_commit_checks) + 1) :
          config' = [config EXCEPT !.pre_commit_checks = Append(@, check)]
    /\ UNCHANGED <<args, git, pc, pass, i, checks, all_changed_paths, num_failed_checks,
                   failed_fixable_checks, fixable_checks, runs, out, vcs_queries, exit_code>>
    /\ UNCHANGED fp_vars

\* _run_pre_commit_check, lines 91-123, with the directories of _run_one
run_pre_commit_check_in_dir ==
    /\ pc = "check"
    /\ i <= Len(checks)
    /\ LET check == the_check(checks[i])
           filtered_changed_paths == filter_paths(pass_changed_paths, check.filters)
           cmd == build_cmd(check, check.cmd, filtered_changed_paths)
       IN IF is_skipped(check, filtered_changed_paths)
          THEN /\ out' = Append(out, status_line(check.name, "skipped"))
               /\ i' = i + 1
               /\ UNCHANGED <<args, runs, num_failed_checks, failed_fixable_checks>>
          ELSE \E success \in BOOLEAN :
               /\ runs' = Append(runs, run_record_in(run_one_dir(args.cwd, check.working_dir),
                                                     "cmd", checks[i], cmd,
                                                     filtered_changed_paths, success))
               /\ args' = [args EXCEPT !.cwd = run_one_cwd_after(@, check.working_dir)]
               /\ IF success
                  THEN /\ out' = out \o <<status_line(check.name, "running"),
                                          status_line(check.name, "passed")>>
                       /\ i' = i + 1
                       /\ UNCHANGED <<num_failed_checks, failed_fixable_checks>>
                  ELSE /\ num_failed_checks' = num_failed_checks + 1
                       /\ failed_fixable_checks' =
                             IF is_failed_fixable(check)
                             THEN Append(failed_fixable_checks, checks[i])
                             ELSE failed_fixable_checks
                       /\ IF should_fail_fast(check) /\ subsequent_checks(i) > 0
                          THEN \* break
                               /\ out' = out \o <<status_line(check.name, "running"),
                                                  status_line(check.name, "failed"),
                                                  msg_line("Failing fast: skipping subsequent checks",
                                                           subsequent_checks(i))>>
                               /\ i' = Len(checks) + 1
                          ELSE /\ out' = out \o <<status_line(check.name, "running"),
                                                  status_line(check.name, "failed")>>
                               /\ i' = i + 1
    /\ UNCHANGED <<config, git, pc, pass, checks, all_changed_paths,
                   fixable_checks, vcs_queries, exit_code>>
    /\ UNCHANGED fp_vars

\* _run_pre_commit_fix, lines 133-159, with the directories of _run_one;
\* `git add` is started after _run_one has returned (line 151)
run_pre_commit_fix_in_dir ==
    /\ pc = "fix"
    /\ i <= Len(fixable_checks)
    /\ LET check == the_check(fixable_checks[i])
           filtered_changed_paths == filter_paths(all_changed_paths, check.filters)
           cmd == build_cmd(check, check.fix_cmd, filtered_changed_paths)
       IN IF is_skipped(check, filtered_changed_paths)
          THEN /\ out' = Append(out, status_line(check.name, "skipped"))
               /\ UNCHANGED <<args, runs, git>>
          ELSE \E success \in BOOLEAN :
               \E fixed \in fix_effects(git, filtered_changed_paths) :
               LET cwd_after == run_one_cwd_after(args.cwd, check.working_dir)
                   fix_run == run_record_in(run_one_dir(args.cwd, check.working_dir),
                                            "fix_cmd", fixable_checks[i], cmd,
                                            filtered_changed_paths, success)
                   add_run == run_record_in(cwd_after,
                                            "git_add", fixable_checks[i],
                                            <<"git", "add">> \o filtered_changed_paths,
                                            filtered_changed_paths,
                                            git_add_ok(fixed, filtered_changed_paths))
               IN /\ args' = [args EXCEPT !.cwd = cwd_after]
                  /\ IF ~success
                     THEN /\ out' = out \o <<status_line(check.name, "fixing"),
                                             status_line(check.name, "fix failed")>>
                          /\ runs' = Append(runs, fix_run)
                          /\ git' = fixed
                     ELSE IF args.unstaged
                     THEN /\ out' = out \o <<status_line(check.name, "fixing"),
                                             status_line(check.name, "finished")>>
                          /\ runs' = Append(runs, fix_run)
                          /\ git' = fixed
                     ELSE /\ out' = out \o <<status_line(check.name, "fixing"),
                                             status_line(check.name, "finished")>>
                                     \o (IF add_run.ok THEN <<>>
                                         ELSE <<status_line(check.name,
                                                   "staging fixed files with 'git add' failed")>>)
                          /\ runs' = runs \o <<fix_run, add_run>>
                          /\ git' = git_add(fixed, filtered_changed_paths)
    /\ i' = i + 1
    /\ UNCHANGED <<config, pc, pass, checks, all_changed_paths, num_failed_checks,
                   failed_fixable_checks, fixable_checks, vcs_queries, exit_code>>
    /\ UNCHANGED fp_vars

\* main.py, lines 142 and 196: os.chdir(git_root) before the run
WorkingDirArgs ==
    [fix_mode : BOOLEAN, unstaged : BOOLEAN, all_files : {FALSE},
     fail_fast : {FALSE}, skip : {<<>>}, cwd : {git_root}]

WorkingDirInit ==
    /\ \E cfg \in OptionTopLevel, a \in WorkingDirArgs, g \in Repos : engine_init(cfg, a, g)
    /\ fp_idle

WorkingDirNext ==
    \/ parse_pre_commit_table_working_dir
    \/ parse_return
    \/ get_checks_to_run
    \/ resolve_changes
    \/ run_pre_commit_check_in_dir
    \/ after_first_pass
    \/ after_retry_pass
    \/ run_pre_commit_fix_in_dir
    \/ after_fix_pass

SpecWorkingDir == WorkingDirInit /\ [][WorkingDirNext]_vars

(***************************************************************************)
(* Vocabulary of the properties                                            *)
(***************************************************************************)
is_exclude(pat) == startswith(pat, "!")

glob_of(pat) == IF is_exclude(pat) THEN Tail(pat) ELSE pat

\* the positions of the patterns of `chain` whose glob matches `path`
matching(path, chain) == {k \in 1..Len(chain) : fnmatch(path, glob_of(chain[k]))}

Max(S) == CHOOSE x \in S : \A y \in S : y <= x

has_msg(text) == \E k \in 1..Len(out) : out[k].kind = "msg" /\ out[k].text = text

count_msg(text) == Cardinality({k \in 1..Len(out) : out[k].kind = "msg" /\ out[k].text = text})

has_status(name, status) ==
    \E k \in 1..Len(out) : out[k] = status_line(name, status)

\* the positions in `runs` of the `what` commands of pass p
runs_of(what, p) == {k \in 1..Len(runs) : runs[k].what = what /\ runs[k].pass = p}

\* the positions in `runs` of the `what` commands of the check declared at position c
runs_of_check(what, c) == {k \in 1..Len(runs) : runs[k].what = what /\ runs[k].check = c}

declared == 1..Len(config.pre_commit_checks)

any_fail_fast(c) ==
    config.fail_fast \/ config.pre_commit_checks[c].fail_fast \/ args.fail_fast

\* check pass p has returned
pass_returned(p) ==
    IF p = 1 THEN pass = 2 \/ (pass = 1 /\ pc # "check")
    ELSE pass = 2 /\ pc # "check"

\* the command of the check at position c exited non-zero in check pass p
failed_in_pass(c, p) ==
    \E k \in 1..Len(runs) :
        runs[k].check = c /\ runs[k].pass = p /\ runs[k].what = "cmd" /\ ~runs[k].ok

\* the command of the check at position c was run in check pass p
executed_in_pass(c, p) ==
    \E k \in 1..Len(runs) : runs[k].check = c /\ runs[k].pass = p /\ runs[k].what = "cmd"

\* the check at position c is neither skipped nor filtered out of the resolved change set
runnable(c) ==
    /\ ~config.pre_commit_checks[c].skip
    /\ filter_paths(all_changed_paths, config.pre_commit_checks[c].filters) # <<>>

(***************************************************************************)
(* The check passes and the autofix cycle                                  *)
(***************************************************************************)
\* C1: when a check's command exits non-zero and config.fail_fast, the check's
\* fail_fast or --fail-fast is true, no check is executed after it in that
\* pass; and once a pass has returned, every check that is not skipped and has
\* a non-empty filtered file list was executed in it, unless an earlier check
\* failed in that pass with one of the three flags true (so with all three
\* false, every such check is executed, whatever failed before it).
C1_FailFast ==
    /\ \A j \in 1..Len(runs) :
          (~runs[j].ok /\ runs[j].what = "cmd" /\ any_fail_fast(runs[j].check)) =>
              \A k \in (j + 1)..Len(runs) :
                  ~(runs[k].what = "cmd" /\ runs[k].pass = runs[j].pass)
    /\ \A p \in {1, 2} : pass_returned(p) =>
          \A c \in declared :
              \/ executed_in_pass(c, p)
              \/ ~runnable(c)
              \/ \E b \in declared : b < c /\ failed_in_pass(b, p) /\ any_fail_fast(b)

\* a first pass in which the first check failed fast and the second, runnable,
\* check was not executed
C1_Witness ==
    /\ pc = "done"
    /\ Len(config.pre_commit_checks) = 2
    /\ failed_in_pass(1, 1)
    /\ any_fail_fast(1)
    /\ runnable(2)
    /\ ~executed_in_pass(2, 1)

\* decreases with every step of a run
Rank ==
    IF pc = "parse" THEN 700 + (MaxChecks - Len(config.pre_commit_checks))
    ELSE IF pc = "start" THEN 600
    ELSE IF pc = "resolve" THEN 500
    ELSE IF pc = "check" /\ pass = 1 THEN 400 + (Len(checks) + 1 - i)
    ELSE IF pc = "fix" THEN 300 + (Len(fixable_checks) + 1 - i)
    ELSE IF pc = "check" THEN 200 + (Len(checks) + 1 - i)
    ELSE 0

C2_Bounded ==
    /\ pass \in 0..2
    /\ count_msg("attempting autofix") <= 1
    /\ count_msg("retrying after autofix") <= 1
    /\ \A c \in declared :
          /\ Cardinality(runs_of_check("cmd", c)) <= 2
          /\ Cardinality(runs_of_check("fix_cmd", c)) <= 1
    /\ Rank >= 0
    /\ pc = "done" \/ ENABLED Next
    /\ (pc = "done" /\ \E c \in declared : failed_in_pass(c, 2)) => exit_code = 1

\* C2: a run never makes more than two check passes and one fix pass (no
\* check's command runs more than twice, no fix command more than once), every
\* step brings it closer to its end and it is never stuck before the end; a
\* run whose retry pass still has a failing check ends with exit status 1.
C2_AtMostOneRetry == [](C2_Bounded) /\ [][Rank' < Rank]_vars

\* a finished run whose fix command ran and whose retry pass still failed
C2_Witness ==
    /\ pc = "done"
    /\ pass = 2
    /\ exit_code = 1
    /\ \E c \in declared :
          /\ runs_of_check("fix_cmd", c) # {}
          /\ failed_in_pass(c, 1)
          /\ failed_in_pass(c, 2)

\* the pass whose failures are reported
authoritative_pass == IF has_msg("retrying after autofix") THEN 2 ELSE 1

\* C3: a run in run mode exits 0 if and only if no check's command failed in
\* the authoritative pass (the retry pass when an autofix cycle ran, otherwise
\* the first pass), and exits 1 otherwise.
C3_ExitStatus ==
    (pc = "done" /\ ~args.fix_mode) =>
        /\ exit_code \in {0, 1}
        /\ exit_code = 0 <=> ~\E c \in declared : failed_in_pass(c, authoritative_pass)

\* a run that exits 0 although a check failed in the first pass
C3_Witness ==
    /\ pc = "done"
    /\ ~args.fix_mode
    /\ exit_code = 0
    /\ \E c \in declared : failed_in_pass(c, 1)

\* the loop of a check pass (or of a fix pass) stands at a check whose
\* filtered file list is empty
at_empty_check ==
    /\ pc = "check"
    /\ i <= Len(checks)
    /\ filter_paths(all_changed_paths, the_check(checks[i]).filters) = <<>>

at_empty_fix ==
    /\ pc = "fix"
    /\ i <= Len(fixable_checks)
    /\ filter_paths(all_changed_paths, the_check(fixable_checks[i]).filters) = <<>>

\* C4: in every check pass and every fix pass, a check whose filtered file
\* list is empty is reported skipped and no command is started for it.
C4_SkipOnEmptyFilter ==
    [][/\ at_empty_check =>
            /\ runs' = runs
            /\ out' = Append(out, status_line(the_check(checks[i]).name, "skipped"))
       /\ at_empty_fix =>
            /\ runs' = runs
            /\ out' = Append(out, status_line(the_check(fixable_checks[i]).name, "skipped"))
      ]_vars

\* a finished run: a check with filters ["*.py"], not flagged skip, against a
\* change set holding only b.txt, was reported skipped and never executed
C4_Witness ==
    /\ pc = "done"
    /\ all_changed_paths = <<b_txt>>
    /\ \E c \in declared :
          /\ config.pre_commit_checks[c].filters = <<star_py>>
          /\ ~config.pre_commit_checks[c].skip
          /\ has_status(config.pre_commit_checks[c].name, "skipped")
          /\ runs_of_check("cmd", c) = {}
          /\ runs_of_check("fix_cmd", c) = {}

\* autofix is enabled for the check at position c
autofix_enabled(c) == config.autofix \/ config.pre_commit_checks[c].autofix

has_fix_cmd(c) == config.pre_commit_checks[c].fix_cmd # <<>>

\* C5: in run mode the autofix phase (and so the retry pass) is entered only
\* if some check failed in the first pass that has a non-empty fix_cmd and has
\* autofix enabled.
C5_AutofixOnlyIfFixable ==
    (~args.fix_mode /\ (has_msg("attempting autofix") \/ pass = 2)) =>
        \E c \in declared : failed_in_pass(c, 1) /\ has_fix_cmd(c) /\ autofix_enabled(c)

\* the autofix pass of a run has returned
autofix_returned == ~args.fix_mode /\ pass = 2

\* C6 as stated: once the autofix phase is entered, the fix command of every
\* check with a non-empty fix_cmd (not skipped, non-empty filtered list) runs.
C6_EveryFixableCheckFixed ==
    autofix_returned =>
        \A c \in declared :
            (has_fix_cmd(c) /\ runnable(c)) => runs_of_check("fix_cmd", c) # {}

\* C6, amended: once the autofix phase is entered, the fix command is invoked
\* exactly once for each check that failed in the first pass, has a non-empty
\* fix_cmd and has autofix enabled, and for no other check.
C6_OnlyFailedFixableFixed ==
    autofix_returned =>
        \A c \in declared :
            Cardinality(runs_of_check("fix_cmd", c)) =
                IF failed_in_pass(c, 1) /\ has_fix_cmd(c) /\ autofix_enabled(c) THEN 1 ELSE 0

\* an autofix pass ran some fix command but not that of a fixable check that
\* had passed in the first pass
C6_Witness ==
    /\ autofix_returned
    /\ \E c \in declared : runs_of_check("fix_cmd", c) # {}
    /\ \E c \in declared :
          /\ has_fix_cmd(c)
          /\ autofix_enabled(c)
          /\ runnable(c)
          /\ executed_in_pass(c, 1)
          /\ ~failed_in_pass(c, 1)
          /\ runs_of_check("fix_cmd", c) = {}

\* C7 as stated: the retry pass filters and runs checks against the change
\* set as version control reports it after the autofix phase.
C7_RetryUsesFreshChangeSet ==
    \A k \in runs_of("cmd", 2) :
        runs[k].files = filter_paths(resolve_changed_paths(git, args),
                                     config.pre_commit_checks[runs[k].check].filters)

\* the position in `out` of the line that announces the retry pass
retry_began == CHOOSE j \in 1..Len(out) : out[j].text = "retrying after autofix"

\* the check at position c was reported skipped after the retry pass began
skipped_in_retry(c) ==
    \E k \in (retry_began + 1)..Len(out) :
        /\ out[k].text = "skipped"
        /\ out[k].name = config.pre_commit_checks[c].name

\* C7, amended: the change set is resolved once per run, before the first
\* pass, and the retry pass filters and runs checks against that same list,
\* whatever the fix commands did to the repository: a command of the retry
\* pass gets the files filtered from the first resolution, and a check the
\* retry pass skips is flagged skip or has none in the first resolution.
C7_RetryUsesFirstChangeSet ==
    /\ Len(vcs_queries) <= 1
    /\ pass = 2 =>
          /\ \A k \in runs_of("cmd", 2) :
                runs[k].files = filter_paths(vcs_queries[1],
                                             config.pre_commit_checks[runs[k].check].filters)
          /\ \A c \in declared :
                \/ config.pre_commit_checks[c].skip
                \/ filter_paths(vcs_queries[1], config.pre_commit_checks[c].filters) = <<>>
                \/ ~skipped_in_retry(c)

\* a check ran in the retry pass on b.txt after a fix command had removed
\* b.txt from what version control reports
C7_Witness ==
    /\ runs_of("cmd", 2) # {}
    /\ resolve_changed_paths(git, args) # vcs_queries[1]

(***************************************************************************)
(* --skip, pass_files, the failure count, the order of the passes          *)
(***************************************************************************)
\* two names that differ at most in the case of their letters
same_ignoring_case(x, y) ==
    /\ Len(x) = Len(y)
    /\ \A k \in 1..Len(x) : x[k] = y[k] \/ {x[k], y[k]} = {"N", "n"}

\* the check at position c has skip = true in the file or is named in --skip
skip_requested(c) ==
    \/ config.pre_commit_checks[c].skip
    \/ \E k \in 1..Len(args.skip) :
           same_ignoring_case(args.skip[k], config.pre_commit_checks[c].name)

\* the run ended with the error of an unknown --skip name
skip_error == has_msg("Error: not the name of a known check")

\* how many times the check at position c has been reported skipped
times_skipped(c) ==
    Cardinality({k \in 1..Len(out) :
                    out[k] = status_line(config.pre_commit_checks[c].name, "skipped")})

\* the check passes of the run that reached the check at position c: those in
\* which no earlier check failed fast
passes_reaching(c) ==
    {p \in 1..pass : ~\E b \in declared : b < c /\ failed_in_pass(b, p) /\ any_fail_fast(b)}

\* C11: a check with skip = true in the file or named in --skip never has a
\* command started for it (cmd, fix_cmd or git add) in any pass and the
\* failure count never exceeds the number of the other checks; a finished run
\* has reported it skipped once in every check pass that reached it, and a
\* finished `iprecommit fix` has reported it skipped if it has a fix_cmd.
C11_SkippedNeverInvoked ==
    /\ \A c \in declared :
          skip_requested(c) =>
              /\ \A k \in 1..Len(runs) : runs[k].check # c
              /\ (pc = "done" /\ ~skip_error) =>
                     IF args.fix_mode
                     THEN has_fix_cmd(c) => times_skipped(c) = 1
                     ELSE times_skipped(c) = Cardinality(passes_reaching(c))
    /\ num_failed_checks <= Cardinality({c \in declared : ~skip_requested(c)})

\* a finished run with an autofix phase and a retry pass, in which the second
\* check, named in --skip, has a fix_cmd and changed files and was reported
\* skipped in both passes
C11_Witness ==
    /\ pc = "done"
    /\ pass = 2
    /\ args.skip = <<lower(check_name(2))>>
    /\ Len(config.pre_commit_checks) = 2
    /\ has_fix_cmd(2)
    /\ filter_paths(all_changed_paths, config.pre_commit_checks[2].filters) # <<>>
    /\ times_skipped(2) = 2
    /\ \E k \in 1..Len(runs) : runs[k].what = "fix_cmd"

\* the configured command line of a started command: cmd or fix_cmd
configured_cmd(run) ==
    IF run.what = "cmd" THEN config.pre_commit_checks[run.check].cmd
    ELSE config.pre_commit_checks[run.check].fix_cmd

\* C12: a check's command, and a fix command in a fix pass, is started with
\* exactly the configured words followed by the check's filtered paths, in the
\* order of the change set, if pass_files is true, and with exactly the
\* configured words if pass_files is false; the filtered paths are never empty.
C12_PassFiles ==
    \A k \in 1..Len(runs) :
        runs[k].what \in {"cmd", "fix_cmd"} =>
            LET check == config.pre_commit_checks[runs[k].check]
                files == filter_paths(vcs_queries[1], check.filters)
            IN /\ files # <<>>
               /\ runs[k].argv = IF check.pass_files
                                 THEN configured_cmd(runs[k]) \o files
                                 ELSE configured_cmd(runs[k])

\* a check with pass_files = false ran without arguments although two paths
\* passed its filters, and a fix command with pass_files = true got its path
C12_Witness ==
    /\ \E k \in 1..Len(runs) :
          /\ runs[k].what = "cmd"
          /\ ~config.pre_commit_checks[runs[k].check].pass_files
          /\ runs[k].files = <<b_txt, a_py>>
          /\ runs[k].argv = config.pre_commit_checks[runs[k].check].cmd
    /\ \E k \in 1..Len(runs) :
          /\ runs[k].what = "fix_cmd"
          /\ config.pre_commit_checks[runs[k].check].pass_files
          /\ runs[k].argv = config.pre_commit_checks[runs[k].check].fix_cmd \o <<a_py>>

\* the checks whose command exited non-zero in check pass p
failed_checks(p) == {c \in declared : failed_in_pass(c, p)}

\* the failure count printed by the summary, 0 when no summary line was printed
reported_failures ==
    IF out # <<>> /\ out[Len(out)].text = "failed. Commit aborted."
    THEN out[Len(out)].n
    ELSE 0

\* C13: the counter always equals the number of checks whose command exited
\* non-zero in the check pass under way or last run (so it restarts from zero
\* with the retry pass, a failing check adds exactly one, a skipped or not-run
\* check adds nothing), and the count a finished run reports is the number of
\* checks that failed in the authoritative pass.
C13_FailureCount ==
    /\ num_failed_checks = Cardinality(failed_checks(pass))
    /\ \A j \in 1..Len(runs) :
          (~runs[j].ok /\ runs[j].what = "cmd") =>
              \A k \in (j + 1)..Len(runs) :
                  ~(runs[k].what = "cmd" /\ runs[k].pass = runs[j].pass
                    /\ runs[k].check = runs[j].check)
    /\ (pc = "done" /\ ~args.fix_mode) =>
          reported_failures = Cardinality(failed_checks(authoritative_pass))

\* a finished run that reports one failure although two checks failed in the
\* first pass: one of them passed in the retry pass
C13_Witness ==
    /\ pc = "done"
    /\ pass = 2
    /\ Cardinality(failed_checks(1)) = 2
    /\ reported_failures = 1

\* C14: the retry pass is handed the full list of declared checks and walks
\* it from the first one, in declaration order: once it has returned, every
\* check that is not skipped and has a non-empty filtered file list was
\* executed in it, whether it passed, failed or was not run in the first
\* pass, unless an earlier check failed fast in the retry pass itself.
C14_RetryRunsFullList ==
    pass = 2 =>
        /\ checks = [k \in declared |-> k]
        /\ \A j, k \in 1..Len(runs) :
              (j < k /\ runs[j].pass = 2 /\ runs[k].pass = 2
               /\ runs[j].what = "cmd" /\ runs[k].what = "cmd")
              => runs[j].check < runs[k].check
        /\ pc = "done" =>
              \A c \in declared :
                  \/ executed_in_pass(c, 2)
                  \/ ~runnable(c)
                  \/ \E b \in declared : b < c /\ failed_in_pass(b, 2) /\ any_fail_fast(b)

\* a finished run whose first check failed fast in the first pass, so that the
\* second was not run, and passed in the retry pass, in which the second ran
C14_Witness ==
    /\ pc = "done"
    /\ pass = 2
    /\ Len(config.pre_commit_checks) = 2
    /\ failed_in_pass(1, 1)
    /\ any_fail_fast(1)
    /\ ~executed_in_pass(2, 1)
    /\ executed_in_pass(1, 2)
    /\ ~failed_in_pass(1, 2)
    /\ executed_in_pass(2, 2)

\* C15: in run mode no fix command is started while the first check pass is
\* under way, and once the retry pass has started or the run has ended, every
\* check with a non-empty fix_cmd that failed in the first pass with autofix
\* enabled (config.autofix or its own) has had its fix command started
\* exactly once, after every command of the first pass and before every
\* command of the retry pass.
C15_FixBetweenPasses ==
    ~args.fix_mode =>
        /\ (pass = 1 /\ pc = "check") => \A k \in 1..Len(runs) : runs[k].what = "cmd"
        /\ (pass = 2 \/ pc = "done") =>
              \A c \in declared :
                  (has_fix_cmd(c) /\ autofix_enabled(c) /\ failed_in_pass(c, 1)) =>
                      /\ Cardinality(runs_of_check("fix_cmd", c)) = 1
                      /\ \A j \in runs_of_check("fix_cmd", c) :
                            \A k \in 1..Len(runs) :
                                runs[k].what = "cmd" =>
                                    IF runs[k].pass = 1 THEN k < j ELSE j < k

\* a finished run in which a check with its own autofix = true, config.autofix
\* being false, failed in the first pass, was fixed and ran again
C15_Witness ==
    /\ pc = "done"
    /\ pass = 2
    /\ ~config.autofix
    /\ \E c \in declared :
          /\ has_fix_cmd(c)
          /\ config.pre_commit_checks[c].autofix
          /\ failed_in_pass(c, 1)
          /\ runs_of_check("fix_cmd", c) # {}
          /\ executed_in_pass(c, 2)

\* C16: in run mode, when the first check pass has returned without a failed
\* command, the run is over with exit status 0: there is no autofix phase, no
\* fix command and no git add is ever started, and no second check pass is
\* made, whatever autofix says and whatever fix_cmd the checks have.
C16_NoFailureNoAutofix ==
    (~args.fix_mode /\ pass_returned(1) /\ ~\E c \in declared : failed_in_pass(c, 1)) =>
        /\ pc = "done"
        /\ exit_code = 0
        /\ pass = 1
        /\ ~has_msg("attempting autofix")
        /\ \A k \in 1..Len(runs) : runs[k].what = "cmd" /\ runs[k].pass = 1

\* a finished run with autofix = true at the top level in which a check with
\* a fix_cmd ran and passed, and nothing failed
C16_Witness ==
    /\ pc = "done"
    /\ ~args.fix_mode
    /\ config.autofix
    /\ exit_code = 0
    /\ pass = 1
    /\ \E c \in declared : has_fix_cmd(c) /\ executed_in_pass(c, 1)
    /\ ~\E c \in declared : failed_in_pass(c, 1)

\* the fix pass of the run has returned
fix_pass_returned == pass = 2 \/ (pc = "done" /\ ~skip_error)

\* the checks that stand after the check at position c in the list the fix
\* pass walks, are not skipped and have a non-empty filtered file list
fixable_after(c) ==
    {fixable_checks[k] : k \in {n \in 1..Len(fixable_checks) :
                                  /\ \E m \in 1..(n - 1) : fixable_checks[m] = c
                                  /\ runnable(fixable_checks[n])}}

\* C17: a fix command that exits non-zero does not end the fix pass: once the
\* pass has returned, the fix command of every later check of its list (not
\* skipped, with files) was started after the failed one, and in run mode the
\* retry pass was started afterwards.
C17_FixFailureDoesNotAbort ==
    fix_pass_returned =>
        \A j \in 1..Len(runs) :
            (~runs[j].ok /\ runs[j].what = "fix_cmd") =>
                /\ \A d \in fixable_after(runs[j].check) :
                      \E k \in (j + 1)..Len(runs) :
                          runs[k].what = "fix_cmd" /\ runs[k].check = d
                /\ ~args.fix_mode =>
                      /\ pass = 2
                      /\ \E n \in 1..Len(out) :
                             /\ out[n].text = "retrying after autofix"
                             /\ \E m \in 1..(n - 1) :
                                    out[m] = status_line(
                                        config.pre_commit_checks[runs[j].check].name,
                                        "fix failed")

\* a retry pass was started after an autofix phase in which the fix command
\* of the first check exited non-zero and that of the second was run
C17_Witness ==
    /\ pass = 2
    /\ \E j, k \in 1..Len(runs) :
          /\ j < k
          /\ runs[j].what = "fix_cmd" /\ ~runs[j].ok
          /\ runs[k].what = "fix_cmd"
    /\ runs_of("cmd", 2) # {}

\* a fix command exited non-zero in the autofix phase of a finished run
fix_failed_in_autofix ==
    /\ pc = "done"
    /\ ~args.fix_mode
    /\ \E k \in 1..Len(runs) : runs[k].what = "fix_cmd" /\ ~runs[k].ok

\* C18 as stated: after a fix command exited non-zero in the autofix phase,
\* the run reports at least one failure and exits 1.
C18_FixFailureFailsRun ==
    fix_failed_in_autofix => (exit_code = 1 /\ reported_failures >= 1)

\* C18, amended: a fix command that exits non-zero in the autofix phase is
\* reported "fix failed" and the retry pass alone decides the outcome: the
\* count reported is the number of checks whose command exited non-zero in
\* the retry pass, and the run exits 1 if there is such a check and 0 if
\* there is none.
C18_RetryDecidesAfterFixFailure ==
    fix_failed_in_autofix =>
        /\ \A k \in 1..Len(runs) :
              (runs[k].what = "fix_cmd" /\ ~runs[k].ok) =>
                  has_status(config.pre_commit_checks[runs[k].check].name, "fix failed")
        /\ pass = 2
        /\ reported_failures = Cardinality(failed_checks(2))
        /\ exit_code = IF failed_checks(2) = {} THEN 0 ELSE 1

\* a run that exits 0 although the fix command of a check exited non-zero:
\* the check's command passed in the retry pass
C18_Witness ==
    /\ fix_failed_in_autofix
    /\ exit_code = 0
    /\ \E k \in 1..Len(runs) :
          /\ runs[k].what = "fix_cmd" /\ ~runs[k].ok
          /\ executed_in_pass(runs[k].check, 2)
          /\ ~failed_in_pass(runs[k].check, 2)

\* the command line of `git add` for the check of the started command `run`
git_add_argv(run) ==
    <<"git", "add">> \o filter_paths(vcs_queries[1],
                                     config.pre_commit_checks[run.check].filters)

\* C19: in a fix pass `git add` is started on a check's filtered paths right
\* after that check's fix command exited 0 in a run without --unstaged, and
\* at no other time: never after a fix command that exited non-zero, never
\* in a run with --unstaged, never after a check's command.
C19_GitAddAfterFix ==
    \A k \in 1..Len(runs) :
        /\ runs[k].what = "git_add" =>
              /\ ~args.unstaged
              /\ k > 1
              /\ runs[k - 1].what = "fix_cmd"
              /\ runs[k - 1].ok
              /\ runs[k - 1].check = runs[k].check
              /\ runs[k].argv = git_add_argv(runs[k])
        /\ (runs[k].what = "fix_cmd" /\ runs[k].ok /\ ~args.unstaged) =>
              /\ k < Len(runs)
              /\ runs[k + 1].what = "git_add"

\* a fix pass without --unstaged in which the fix command of a check with
\* pass_files = false exited 0 and was followed by `git add b.txt`, and
\* another fix command exited non-zero and was followed by no git add
C19_Witness ==
    /\ pc = "done"
    /\ ~args.unstaged
    /\ \E k \in 1..(Len(runs) - 1) :
          /\ runs[k].what = "fix_cmd" /\ runs[k].ok
          /\ ~config.pre_commit_checks[runs[k].check].pass_files
          /\ runs[k + 1].what = "git_add"
          /\ runs[k + 1].argv = <<"git", "add", b_txt>>
    /\ \E k \in 1..Len(runs) :
          /\ runs[k].what = "fix_cmd" /\ ~runs[k].ok
          /\ (k < Len(runs) => runs[k + 1].what # "git_add")

\* some name given to --skip is the name of no declared check, whatever the
\* case of its letters
unknown_skip ==
    \E k \in 1..Len(args.skip) :
        \A c \in declared :
            ~same_ignoring_case(args.skip[k], config.pre_commit_checks[c].name)

\* C20: when a --skip name matches no check of the file, the run ends with
\* the error and exit status 1 before the change set is resolved: no
\* version-control query is made and no command is ever started; and the
\* error is raised for no other command line.
C20_UnknownSkipIsFatal ==
    pc # "parse" =>
        /\ unknown_skip =>
              /\ pc \in {"start", "done"}
              /\ vcs_queries = <<>>
              /\ all_changed_paths = <<>>
              /\ runs = <<>>
              /\ pc = "done" => (exit_code = 1 /\ skip_error)
        /\ skip_error => unknown_skip

\* a run with one declared check, changed files and --skip n2 has ended with
\* the error
C20_Witness ==
    /\ pc = "done"
    /\ Len(config.pre_commit_checks) = 1
    /\ ~config.pre_commit_checks[1].skip
    /\ args.skip = <<lower(check_name(2))>>
    /\ resolve_changed_paths(git, args) # <<>>
    /\ skip_error
    /\ exit_code = 1
    /\ runs = <<>>

(***************************************************************************)
(* --only                                                                  *)
(***************************************************************************)
\* the check at position c is named in --only
only_requested(c) ==
    \E k \in 1..Len(args.only) :
        same_ignoring_case(args.only[k], config.pre_commit_checks[c].name)

no_files_message ==
    \/ has_msg("No files are staged in Git")
    \/ has_msg("No files are changed (staged or unstaged) in Git")

\* C22: when the resolved change set is empty (default mode or --unstaged),
\* `iprecommit run` executes no check, prints the message that no files are
\* staged or changed, and exits with a non-zero status.
C22_EmptyChangeSetFails ==
    (pc = "done" /\ ~args.fix_mode /\ ~args.all_files
        /\ Len(vcs_queries) > 0 /\ vcs_queries[1] = <<>>) =>
        /\ runs = <<>>
        /\ no_files_message
        /\ exit_code > 0

\* C23: in default mode (neither --unstaged nor --all) no untracked path is
\* part of the change set or passed to a check's command.
C23_UntrackedIgnoredByDefault ==
    (~args.fix_mode /\ ~args.unstaged /\ ~args.all_files) =>
        /\ \A k \in 1..Len(vcs_queries) :
              \A p \in Range(vcs_queries[k]) : git[p] # "U"
        /\ \A k \in 1..Len(runs) :
              \A p \in Range(runs[k].files) : git[p] # "U"

\* the records appended to `runs` by the step
started_by_step == (Len(runs) + 1)..Len(runs')

\* the words of a started command line after `git add`, or all of them
words_after_git_add(run) ==
    IF run.what = "git_add" THEN SubSeq(run.argv, 3, Len(run.argv)) ELSE run.argv

\* C24: with --all, the change set that is resolved has no duplicate and
\* holds no path the repository reports as deleted (staged or unstaged) at
\* that moment, and every path passed to a check command, a fix command or
\* git add is a path of that change set.
C24_AllExcludesDeleted ==
    [][args.all_files =>
          /\ pc = "resolve" =>
                /\ no_duplicates(all_changed_paths')
                /\ \A p \in Range(all_changed_paths') :
                      /\ git[p] \notin {"D", "d"}
                      /\ p \notin Range(get_deleted_paths(git, TRUE))
          /\ \A k \in started_by_step :
                \A w \in Range(words_after_git_add(runs'[k])) :
                    w \in Paths => w \in Range(vcs_queries[1])]_vars

\* `iprecommit run --all` where a.py is deleted in the work tree and b.txt is
\* tracked and unchanged: a check was given b.txt alone
C24_Witness ==
    /\ args.all_files
    /\ ~args.fix_mode
    /\ git[a_py] = "d"
    /\ git[b_txt] = "T"
    /\ all_changed_paths = <<b_txt>>
    /\ \E k \in 1..Len(runs) : runs[k].what = "cmd" /\ runs[k].files = <<b_txt>>

(***************************************************************************)
(* The fail-fast report, the order of the commands, the loaded checks      *)
(***************************************************************************)
fail_fast_message(k) ==
    out[k].kind = "msg" /\ out[k].text = "Failing fast: skipping subsequent checks"

\* the pass in which the line at position k of `out` was printed
pass_of_line(k) ==
    IF pass = 2 /\ k > retry_began THEN 2 ELSE 1

\* C25: when a check fails fast and checks are declared after it, the pass
\* prints, right after the check's `failed` line, one line saying how many
\* subsequent checks are skipped, the number being the number of checks
\* declared after the failing check, and prints no status line for any of
\* them; when the failing check is the last one declared no such line is
\* printed; and the line is printed at no other time.
C25_FailFastReported ==
    /\ \A k \in 1..Len(out) :
          fail_fast_message(k) =>
              LET c == Len(config.pre_commit_checks) - out[k].n
              IN /\ out[k].n > 0
                 /\ c \in declared
                 /\ k > 1
                 /\ out[k - 1] = status_line(config.pre_commit_checks[c].name, "failed")
                 /\ any_fail_fast(c)
                 /\ failed_in_pass(c, pass_of_line(k))
                 /\ k < Len(out) => out[k + 1].kind = "msg"
    /\ \A j \in 1..Len(runs) :
          (~runs[j].ok /\ runs[j].what = "cmd" /\ any_fail_fast(runs[j].check)
              /\ runs[j].check < Len(config.pre_commit_checks)) =>
              \E k \in 1..Len(out) :
                  /\ fail_fast_message(k)
                  /\ out[k].n = Len(config.pre_commit_checks) - runs[j].check
                  /\ pass_of_line(k) = runs[j].pass

\* a finished run over two checks in which the first failed fast in the
\* first pass and in the retry pass: each pass reported one skipped check
C25_Witness ==
    /\ pc = "done"
    /\ pass = 2
    /\ Len(config.pre_commit_checks) = 2
    /\ failed_in_pass(1, 1)
    /\ failed_in_pass(1, 2)
    /\ any_fail_fast(1)
    /\ Cardinality({k \in 1..Len(out) : fail_fast_message(k) /\ out[k].n = 1}) = 2
    /\ ~executed_in_pass(2, 1)
    /\ ~executed_in_pass(2, 2)

(***************************************************************************)
(* main(): exit statuses, IPRECOMMIT_DEBUG, the working tree               *)
(***************************************************************************)
\* the messages of the errors main() hands to bail()
ErrorTexts ==
    {"Error: iprecommit must be run in a Git repository.",
     "Error: a key that iprecommit does not recognize",
     "Error: a key that iprecommit does not recognize (Did you mean 'fail_fast'?)",
     "Error: a key that iprecommit does not recognize (Did you mean 'autofix'?)",
     "Error: not the name of a known check"}

error_reported == \E k \in 1..Len(out) : out[k].text \in ErrorTexts

\* the process was started as `iprecommit run` or `iprecommit fix`
run_or_fix == "subcmd" \in DOMAIN args => args.subcmd \in {"run", "fix"}

C27_OneAtATimeInOrder ==
    [][/\ Len(runs') - Len(runs) \in {0, 1, 2}
       /\ \A k \in started_by_step :
             /\ runs'[k].check = IF pc = "check" THEN checks[i] ELSE fixable_checks[i]
             /\ IF runs'[k].what = "git_add"
                THEN /\ k - 1 \in started_by_step
                     /\ runs'[k - 1].what = "fix_cmd"
                     /\ runs'[k - 1].check = runs'[k].check
                     /\ runs'[k - 1].ok
                ELSE \A j \in 1..(k - 1) :
                         (runs'[j].pass = runs'[k].pass /\ runs'[j].what = runs'[k].what) =>
                             runs'[j].check < runs'[k].check]_vars

\* a finished run over two checks: both failed in the first pass, both were
\* fixed, both were run again in the retry pass, each time the first before
\* the second
C27_Witness ==
    /\ pc = "done"
    /\ pass = 2
    /\ Len(runs) >= 6
    /\ runs[1].what = "cmd" /\ runs[1].check = 1 /\ runs[1].pass = 1
    /\ runs[2].what = "cmd" /\ runs[2].check = 2 /\ runs[2].pass = 1
    /\ runs[3].what = "fix_cmd" /\ runs[3].check = 1
    /\ \E k \in 4..Len(runs) : runs[k].what = "fix_cmd" /\ runs[k].check = 2
    /\ runs[Len(runs) - 1].what = "cmd" /\ runs[Len(runs) - 1].check = 1
       /\ runs[Len(runs) - 1].pass = 2
    /\ runs[Len(runs)].what = "cmd" /\ runs[Len(runs)].check = 2 /\ runs[Len(runs)].pass = 2

\* C28: once the file is loaded, no step changes a check's cmd, fix_cmd or
\* filters (the engine sets skip only, before the first pass), and a check's
\* command is started with the same argument list every time it is run: in
\* the retry pass with the list of the first pass.
C28_ChecksReadOnly ==
    [][pc # "parse" =>
          /\ Len(config'.pre_commit_checks) = Len(config.pre_commit_checks)
          /\ \A c \in declared :
                /\ config'.pre_commit_checks[c].cmd = config.pre_commit_checks[c].cmd
                /\ config'.pre_commit_checks[c].fix_cmd = config.pre_commit_checks[c].fix_cmd
                /\ config'.pre_commit_checks[c].filters = config.pre_commit_checks[c].filters
          /\ \A k \in started_by_step :
                /\ runs'[k].what \in {"cmd", "fix_cmd"} =>
                      runs'[k].argv = configured_cmd(runs'[k]) \o runs'[k].files
                /\ \A j \in 1..Len(runs) :
                      (runs[j].what = runs'[k].what /\ runs[j].check = runs'[k].check) =>
                          runs[j].argv = runs'[k].argv]_vars

\* a finished run whose first check, given b.txt, was run in the first pass,
\* fixed, and run again in the retry pass with the same argument list, its
\* cmd being the loaded one
C28_Witness ==
    /\ pc = "done"
    /\ pass = 2
    /\ Len(config.pre_commit_checks) >= 1
    /\ config.pre_commit_checks[1].cmd = check_cmd(1)
    /\ \E j, k \in 1..Len(runs) :
          /\ runs[j].what = "cmd" /\ runs[j].check = 1 /\ runs[j].pass = 1
          /\ runs[k].what = "cmd" /\ runs[k].check = 1 /\ runs[k].pass = 2
          /\ runs[j].argv = check_cmd(1) \o <<b_txt>>
          /\ runs[k].argv = runs[j].argv
    /\ runs_of_check("fix_cmd", 1) # {}

\* the process read IPRECOMMIT_DEBUG as set (main.py, lines 156-158)
debug_set == "IPRECOMMIT_DEBUG" \in DOMAIN args /\ in_debug_mode(args.IPRECOMMIT_DEBUG)

\* C29: IPRECOMMIT_DEBUG is purely observational: the step that makes the
\* dump prints diagnostic lines and changes nothing else, and it always hands
\* over to the subcommand, which then starts from the state it starts from
\* when the variable is unset (so the same commands and exit status follow);
\* the dump is made before any check runs.
C29_DebugIsObservational ==
    [][pc = "debug" =>
          /\ pc' = "dispatch"
          /\ exit_code' = exit_code
          /\ runs = <<>>
          /\ UNCHANGED <<config, args, git, pass, i, checks, all_changed_paths,
                         num_failed_checks, failed_fixable_checks, fixable_checks,
                         runs, vcs_queries>>
          /\ \A k \in (Len(out) + 1)..Len(out') : out'[k].kind = "msg"
          /\ ~debug_set => out' = out]_vars

\* no ancestor of the current directory, itself included, holds a .git entry
outside_working_tree ==
    "cwd" \in DOMAIN args /\ \A d \in 0..args.cwd : d \notin args.dot_git

\* C30: when no ancestor directory holds .git, the first step of every
\* subcommand ends the process with the error and exit status 1: the
\* configuration is not loaded, the subcommand is not dispatched, no
\* version-control query is made and no command is started; inside a working
\* tree that step reports nothing.
C30_OutsideWorkingTreeIsFatal ==
    /\ outside_working_tree =>
          /\ pc \in {"main", "done"}
          /\ "unknown_keys" \in DOMAIN config    \* still the file, not a Config
          /\ runs = <<>>
          /\ vcs_queries = <<>>
          /\ pc = "done" =>
                /\ exit_code = 1
                /\ out = <<msg_line("Error: iprecommit must be run in a Git repository.", 0)>>
    /\ has_msg("Error: iprecommit must be run in a Git repository.") => outside_working_tree

\* `iprecommit run-commit-msg` one level below the root directory, where
\* only a subdirectory of the current directory holds .git, has ended with
\* the error
C30_Witness ==
    /\ pc = "done"
    /\ "subcmd" \in DOMAIN args
    /\ args.subcmd = "run-commit-msg"
    /\ args.cwd = 1
    /\ args.dot_git = {2}
    /\ exit_code = 1
    /\ has_msg("Error: iprecommit must be run in a Git repository.")

(***************************************************************************)
(* Failing version-control queries, unknown configuration keys             *)
(***************************************************************************)
\* a query of the change-set resolution ends with a non-zero status: the
\* resolution asks for HEAD (--unstaged or --all) and HEAD does not resolve
query_fails == ~has_head(git) /\ (args.unstaged \/ args.all_files)

\* C31: when a version-control query of the change-set resolution fails, no
\* check or fix command is ever started and the run ends with exit status 1:
\* the failed query is not read as an empty list of paths.
C31_QueryFailureIsFatal ==
    query_fails =>
        /\ runs = <<>>
        /\ pc = "done" => exit_code = 1

\* the first key left in the table the loader was validating when it stopped
rejected_key(cfg) ==
    IF "pre_commit_toml" \in DOMAIN cfg THEN cfg.pre_commit_toml[1] ELSE cfg.unknown_keys[1]

\* the loader is about to validate a top-level table that holds a key it
\* does not know, or has just stopped at such a key of a [[pre_commit]] table
load_rejects ==
    \/ pc = "load" /\ config.unknown_keys # <<>>
    \/ pc = "parse" /\ "pre_commit_toml" \in DOMAIN config'

UnrecognizedTexts ==
    {"Error: a key that iprecommit does not recognize",
     "Error: a key that iprecommit does not recognize (Did you mean 'fail_fast'?)",
     "Error: a key that iprecommit does not recognize (Did you mean 'autofix'?)"}

\* C32: loading a file with a key the loader does not know, in the top-level
\* table or in a [[pre_commit]] table, ends the process with exit status 1
\* and an error message as its last output before any command was started,
\* and when the first such key of the table contains "fail" the message
\* suggests 'fail_fast'.
C32_UnknownKeyIsFatal ==
    [][load_rejects =>
          /\ pc' = "done"
          /\ exit_code' = 1
          /\ runs' = <<>>
          /\ Len(out') = Len(out) + 1
          /\ out'[Len(out')].text \in UnrecognizedTexts
          /\ contains(rejected_key(config'), <<"f", "a", "i", "l">>) =>
                out'[Len(out')].text =
                    "Error: a key that iprecommit does not recognize (Did you mean 'fail_fast'?)"]_vars

\* a file whose second [[pre_commit]] table holds the key `fail_fats` was
\* rejected with the suggestion, after the first table had been loaded
C32_Witness ==
    /\ pc = "done"
    /\ exit_code = 1
    /\ runs = <<>>
    /\ has_msg("Error: a key that iprecommit does not recognize (Did you mean 'fail_fast'?)")
    /\ "pre_commit_toml" \in DOMAIN config
    /\ config.pre_commit_toml = <<fail_fats>>
    /\ Len(config.pre_commit_checks) = 1

(***************************************************************************)
(* filter_paths                                                            *)
(***************************************************************************)
\* C8: in filter_paths a later pattern overrides an earlier one: a candidate
\* matched by at least one pattern of the chain is in the result exactly when
\* the last pattern (in declaration order) that matches it is an include.
C8_LastMatchDecides ==
    fp_pc = "return" =>
        \A k \in 1..Len(fp_paths) :
            LET m == matching(fp_paths[k], fp_filters)
            IN m # {} =>
                 (fp_paths[k] \in Range(fp_result) <=> ~is_exclude(fp_filters[Max(m)]))

\* ["*.py", "!c.py", "b.txt"] on [a.py, b.txt, c.py] gives [a.py, b.txt]
C8_Witness ==
    /\ fp_pc = "return"
    /\ fp_paths = <<a_py, b_txt, c_py>>
    /\ fp_filters = <<star_py, Bang(c_py), b_txt>>
    /\ fp_result = <<a_py, b_txt>>

\* C9: a chain whose first pattern is an exclude behaves as if "*" were
\* prepended: every candidate that no pattern of the chain matches is in the
\* result, and the result is that of the chain with "*" written in front.
C9_LeadingExcludeIncludesRest ==
    (fp_pc = "return" /\ fp_filters # <<>> /\ is_exclude(fp_filters[1])) =>
        /\ \A k \in 1..Len(fp_paths) :
              matching(fp_paths[k], fp_filters) = {} => fp_paths[k] \in Range(fp_result)
        /\ fp_result = filter_paths(fp_paths, <<star>> \o fp_filters)

\* filter_paths(["a.txt", "b.txt"], ["!b.txt"]) yields ["a.txt"]
C9_Witness ==
    /\ fp_pc = "return"
    /\ fp_paths = <<a_txt, b_txt>>
    /\ fp_filters = <<Bang(b_txt)>>
    /\ fp_result = <<a_txt>>

\* C10 as stated: every candidate starts included, so a candidate that no
\* pattern of a non-empty chain matches is in the result.
C10_UnmatchedIncluded ==
    (fp_pc = "return" /\ fp_filters # <<>>) =>
        \A k \in 1..Len(fp_paths) :
            matching(fp_paths[k], fp_filters) = {} => fp_paths[k] \in Range(fp_result)

\* C10, amended: every candidate starts excluded; a candidate that no pattern
\* of a non-empty chain matches is in the result exactly when the first
\* pattern of the chain is an exclude (the implicit "*" then includes it).
C10_UnmatchedIncludedIffLeadingExclude ==
    (fp_pc = "return" /\ fp_filters # <<>>) =>
        \A k \in 1..Len(fp_paths) :
            matching(fp_paths[k], fp_filters) = {} =>
                (fp_paths[k] \in Range(fp_result) <=> is_exclude(fp_filters[1]))

\* filter_paths(["a.py", "b.txt"], ["*.py"]) drops the unmatched b.txt
C10_Witness ==
    /\ fp_pc = "return"
    /\ fp_paths = <<a_py, b_txt>>
    /\ fp_filters = <<star_py>>
    /\ fp_result = <<a_py>>

\* C33: filter_paths with an empty filter list returns the candidates as
\* they are: all of them, in the same order.
C33_EmptyChainReturnsAll ==
    (fp_pc = "return" /\ fp_filters = <<>>) => fp_result = fp_paths

\* filter_paths(["c.py", "a.txt", "b.txt"], []) gave back the three paths
C33_Witness ==
    /\ fp_pc = "return"
    /\ fp_filters = <<>>
    /\ fp_paths = <<c_py, a_txt, b_txt>>
    /\ fp_result = <<c_py, a_txt, b_txt>>

\* the candidate is kept when it is filtered on its own
kept_alone(path, chain) == filter_paths(<<path>>, chain) = <<path>>

\* C36: the result of filter_paths is the candidate list without some of its
\* elements: nothing is added, the order is kept, and a candidate is in the
\* result exactly when the chain keeps it when it is the only candidate;
\* filtering the result again with the same chain gives the result back.
C36_SubsequenceIdempotent ==
    fp_pc = "return" =>
        /\ fp_result = SelectSeq(fp_paths, LAMBDA p : kept_alone(p, fp_filters))
        /\ filter_paths(fp_result, fp_filters) = fp_result

\* ["*.py", "!c.py"] kept a.py and dropped c.py and b.txt from between and
\* behind it
C36_Witness ==
    /\ fp_pc = "return"
    /\ fp_filters = <<star_py, Bang(c_py)>>
    /\ fp_paths = <<c_py, a_py, b_txt>>
    /\ fp_result = <<a_py>>

(***************************************************************************)
(* The fix pass: what it runs, what it counts, what it stages              *)
(***************************************************************************)
\* the argument list begins with the words of `words`
begins_with(argv, words) ==
    Len(argv) >= Len(words) /\ SubSeq(argv, 1, Len(words)) = words

\* C34: a step of a fix pass (of `iprecommit fix` or of the autofix phase)
\* starts a command only for a check that has a fix_cmd, and that command is
\* the check's fix_cmd, possibly followed by `git add`: never the check's cmd.
C34_FixPassRunsFixCmdOnly ==
    [][pc = "fix" =>
          \A k \in started_by_step :
              /\ has_fix_cmd(runs'[k].check)
              /\ runs'[k].what \in {"fix_cmd", "git_add"}
              /\ runs'[k].what = "fix_cmd" =>
                    /\ begins_with(runs'[k].argv, the_check(runs'[k].check).fix_cmd)
                    /\ ~begins_with(runs'[k].argv, the_check(runs'[k].check).cmd)]_vars

\* the first check, which sets autofix but has no fix_cmd, failed and was
\* handed to the autofix pass together with the second; the pass ran the
\* second check's fix_cmd and nothing for the first
C34_Witness ==
    /\ pc = "done"
    /\ has_msg("attempting autofix")
    /\ Len(config.pre_commit_checks) = 2
    /\ ~has_fix_cmd(1)
    /\ config.pre_commit_checks[1].autofix
    /\ failed_in_pass(1, 1)
    /\ runs_of_check("fix_cmd", 1) = {}
    /\ runs_of_check("git_add", 1) = {}
    /\ runs_of_check("fix_cmd", 2) # {}

\* the check is named in the IPRECOMMIT_SKIP variable of the environment
env_skip_requested(c) ==
    /\ "IPRECOMMIT_SKIP" \in DOMAIN args
    /\ args.IPRECOMMIT_SKIP # None
    /\ \E k \in 1..Len(args.IPRECOMMIT_SKIP) :
           same_ignoring_case(args.IPRECOMMIT_SKIP[k], config.pre_commit_checks[c].name)

\* C35: a check named in IPRECOMMIT_SKIP is treated as one named by --skip:
\* it is not executed, none of its commands is ever started.
C35_EnvironmentSkips ==
    \A k \in 1..Len(runs) :
        ~env_skip_requested(runs[k].check)

(***************************************************************************)
(* The commit-msg and pre-push passes                                      *)
(***************************************************************************)
\* the checks of the hook that was started
hook_list ==
    IF args.subcmd = "run-commit-msg" THEN config.commit_msg_checks
    ELSE config.pre_push_checks

\* the words the hook puts after each check's cmd
hook_extra ==
    IF args.subcmd = "run-commit-msg" THEN <<args.commit_msg>> ELSE all_changed_paths

\* C37: a commit-msg or pre-push pass runs the configured checks one by one
\* in declaration order, each with its cmd followed by the hook's arguments
\* and nothing else; when the pass has ended every check was run exactly
\* once, whatever failed before it and whatever the top-level fail_fast
\* says, and the exit status is 1 exactly when one of them failed, 0
\* otherwise.
C37_HookPassRunsAll ==
    /\ \A k \in 1..Len(runs) :
          /\ runs[k].check = k
          /\ runs[k].what = IF args.subcmd = "run-commit-msg"
                            THEN "commit_msg_cmd" ELSE "pre_push_cmd"
          /\ runs[k].argv = hook_list[k].cmd \o hook_extra
    /\ pc = "done" =>
          /\ Len(runs) = Len(hook_list)
          /\ exit_code \in {0, 1}
          /\ exit_code = 1 <=> \E k \in 1..Len(runs) : ~runs[k].ok

\* a pre-push pass under a top-level fail_fast = true: the first check
\* failed, the second was still run and passed, the push is refused
C37_Witness ==
    /\ pc = "done"
    /\ args.subcmd = "run-pre-push"
    /\ config.fail_fast
    /\ Len(config.pre_push_checks) = 2
    /\ Len(runs) = 2
    /\ ~runs[1].ok
    /\ runs[2].ok
    /\ exit_code = 1

(***************************************************************************)
(* working_dir                                                             *)
(***************************************************************************)
\* C38: running the command of a check that declares a working_dir does not
\* move the process: after every step the current directory is the one the
\* run started in, whether the command succeeded or failed; so every command
\* of a check without a working_dir, and every `git add`, was started in
\* that directory, and the command of a check with a working_dir in its
\* working_dir below it.
C38_WorkingDirRestored ==
    /\ args.cwd = git_root
    /\ \A k \in 1..Len(runs) :
          runs[k].cwd =
              IF runs[k].what # "git_add" /\ the_check(runs[k].check).working_dir # None
              THEN git_root \o <<"/">> \o the_check(runs[k].check).working_dir
              ELSE git_root

\* `iprecommit fix`: the fix command of the first check ran in its
\* working_dir and succeeded, its `git add` ran in the root; the fix command
\* of the second check, also with a working_dir, failed; the run is over
C38_Witness ==
    /\ pc = "done"
    /\ args.fix_mode
    /\ Len(runs) = 3
    /\ the_check(1).working_dir = subdir
    /\ runs[1].what = "fix_cmd" /\ runs[1].ok /\ runs[1].cwd = git_root \o <<"/">> \o subdir
    /\ runs[2].what = "git_add" /\ runs[2].cwd = git_root
    /\ the_check(2).working_dir = subdir
    /\ runs[3].what = "fix_cmd" /\ ~runs[3].ok /\ runs[3].cwd = git_root \o <<"/">> \o subdir

(***************************************************************************)
(* `iprecommit fix`: the failure counter, the paths that are staged        *)
(***************************************************************************)
\* C39: in a run of `iprecommit fix` the failure counter is zero at every
\* moment, and the run ends with exit status 0, also when a fix command
\* exited non-zero or `git add` failed.
C39_FixModeCountsNoFailure ==
    args.fix_mode =>
        /\ num_failed_checks = 0
        /\ pc = "done" => exit_code = 0

\* `iprecommit fix` has ended with exit status 0 after the first check's
\* `git add` failed and the second check's fix command exited non-zero
C39_Witness ==
    /\ pc = "done"
    /\ args.fix_mode
    /\ exit_code = 0
    /\ \E k \in 1..Len(runs) : runs[k].what = "git_add" /\ runs[k].check = 1 /\ ~runs[k].ok
    /\ \E k \in 1..Len(runs) : runs[k].what = "fix_cmd" /\ runs[k].check = 2 /\ ~runs[k].ok
    /\ has_status(check_name(2), "fix failed")

\* C40: when a fix command has succeeded, `git add` is started next with
\* every filtered path of that check, and when it succeeds none of those
\* paths is left untracked or with unstaged changes; in an --all run these
\* are the tracked, the changed and the untracked paths alike.  Only
\* --unstaged suppresses the staging.
C40_FixStagesEveryFilteredPath ==
    [][(pc = "fix" /\ \E k \in started_by_step : runs'[k].what = "fix_cmd" /\ runs'[k].ok) =>
          LET files == filter_paths(all_changed_paths, the_check(fixable_checks[i]).filters)
          IN IF args.unstaged
             THEN \A j \in started_by_step : runs'[j].what # "git_add"
             ELSE \E j \in started_by_step :
                     /\ runs'[j].what = "git_add"
                     /\ words_after_git_add(runs'[j]) = files
                     /\ runs'[j].ok => \A p \in Range(files) : git'[p] \notin {"U", "m", "d"}]_vars

\* `iprecommit fix --all` over a change set of both paths: the fix command
\* of the first check succeeded, `git add a.py b.txt` followed and
\* succeeded, and a.py is now staged as a new file
C40_Witness ==
    /\ pc = "done"
    /\ args.fix_mode
    /\ args.all_files
    /\ all_changed_paths = <<a_py, b_txt>>
    /\ Len(runs) >= 2
    /\ runs[1].what = "fix_cmd" /\ runs[1].ok /\ runs[1].files = <<a_py, b_txt>>
    /\ runs[2].what = "git_add" /\ runs[2].ok /\ runs[2].files = <<a_py, b_txt>>
    /\ git[a_py] = "A"

====
